---- MODULE Spec2Model ----
(***************************************************************************)
(* Buhlmann ZH-L16C + gradient factor decompression planner.               *)
(*                                                                         *)
(* Numbers are fixed point.  Pressures are in microbar, depths of the      *)
(* simulation in micrometres, durations in microminutes, gas fractions and *)
(* gradient factors in parts per million; the depths of the interface      *)
(* (depthM, lastStopDepth, stop depths) are whole metres and the reported  *)
(* times whole minutes, as the planner returns them.                       *)
(***************************************************************************)
EXTENDS Integers, Sequences, FiniteSets

Micro == 1000 * 1000
Nano == 1000 * Micro

Abs(x) == IF x < 0 THEN -x ELSE x
Max(a, b) == IF a > b THEN a ELSE b
Min(a, b) == IF a < b THEN a ELSE b

\* floor(a * b / 10^6) for a, b >= 0, computed on three-digit limbs so that no
\* intermediate product leaves the 32-bit range
Mul6(a, b) ==
    LET ah == a \div 1000
        al == a % 1000
        bh == b \div 1000
        bl == b % 1000
    IN  ah * bh + ((ah * bl + al * bh) + (al * bl) \div 1000) \div 1000

\* floor(a * b / 10^9) for a, b >= 0, on three-digit limbs
Mul9(a, b) ==
    LET a2 == a \div Micro
        a1 == (a \div 1000) % 1000
        a0 == a % 1000
        b2 == b \div Micro
        b1 == (b \div 1000) % 1000
        b0 == b % 1000
    IN  a2 * b2 * 1000 + (a2 * b1 + a1 * b2)
        + ((a2 * b0 + a1 * b1 + a0 * b2)
           + ((a1 * b0 + a0 * b1) + (a0 * b0) \div 1000) \div 1000) \div 1000

SMul9(a, b) ==
    IF (a < 0) = (b < 0) THEN Mul9(Abs(a), Abs(b)) ELSE -Mul9(Abs(a), Abs(b))

\* a * b / 10^6 for signed operands, truncated toward zero
SMul6(a, b) ==
    IF (a < 0) = (b < 0) THEN Mul6(Abs(a), Abs(b)) ELSE -Mul6(Abs(a), Abs(b))

\* floor(n * 10^6 / d) for n >= 0, d > 0, by long division two digits at a time
Div6(n, d) ==
    LET q0 == n \div d
        r0 == n % d
        q1 == (r0 * 100) \div d
        r1 == (r0 * 100) % d
        q2 == (r1 * 100) \div d
        r2 == (r1 * 100) % d
        q3 == (r2 * 100) \div d
    IN  q0 * Micro + q1 * 10000 + q2 * 100 + q3

\* Math.ceil(n / d) for n >= 0, d > 0
CeilDiv(n, d) == (n + d - 1) \div d

\* Math.round of a duration in microminutes, in whole minutes (half rounds up)
MathRound(t) == (t + 500000) \div Micro

----------------------------------------------------------------------------
(* Constants of the model (constants.ts)                                   *)

SURFACE_PRESSURE == 1013250
WATER_VAPOUR_PRESSURE == 62700
PRESSURE_PER_METER == 100000

\* half-times in hundredths of a minute
HALF_TIMES_N2 ==
    << 500, 800, 1250, 1850, 2700, 3830, 5430, 7700,
       10900, 14600, 18700, 23900, 30500, 39000, 49800, 63500 >>
HALF_TIMES_HE ==
    << 188, 302, 472, 699, 1021, 1448, 2053, 2911,
       4120, 5519, 7069, 9034, 11529, 14742, 18824, 24003 >>

\* Buhlmann coefficients in parts per million
A_N2 ==
    << 1169600, 1000000, 861800, 756200, 666700, 593300, 528200, 470100,
       418700, 379800, 349700, 322300, 297100, 273700, 252300, 232700 >>
B_N2 ==
    << 557800, 651400, 722200, 782500, 812600, 843400, 869300, 891000,
       909200, 922200, 931900, 940300, 947700, 954400, 960200, 965300 >>
A_HE ==
    << 1618900, 1383000, 1191900, 1045800, 922000, 820500, 730500, 650200,
       595000, 554500, 533300, 518900, 518100, 517600, 517200, 511900 >>
B_HE ==
    << 477000, 574700, 652700, 722300, 758200, 795700, 827900, 855300,
       875700, 890300, 899700, 907300, 912200, 917100, 921700, 926700 >>

Comps == 1 .. 16

\* Math.log(2) * 10^9
LN2 == 693147181

STOP_STEP == 3
ASCENT_RATE == 9
DESCENT_RATE == 19
\* the runaway guard of the hold loop, minutes
HELD_GUARD == 360

----------------------------------------------------------------------------
(* Tissue saturation (utils.ts)                                            *)

\* depth in micrometres -> ambient pressure in microbar
depthToPressure(depthU) ==
    SURFACE_PRESSURE + depthU \div (Micro \div PRESSURE_PER_METER)

computePinsp(pAmb, fInert) ==
    Max(0, SMul6(pAmb - WATER_VAPOUR_PRESSURE, fInert))

\* 1 - x/n (1 - x/(n+1) (1 - ...)): the series of Math.exp, x in 10^-9
RECURSIVE ExpHorner(_, _)
ExpHorner(x, n) ==
    IF n > 10 THEN Nano
    ELSE Nano - Mul9(x, ExpHorner(x, n + 1)) \div n

\* 1 - Math.exp(-(LN2 / halfTime) * minutes) in 10^-9; a duration over a minute
\* is halved, with 1 - e^(-(y+z)) = (1 - e^(-y)) + (1 - e^(-z)) - their product
RECURSIVE OneMinusExp(_, _)
OneMinusExp(halfTime, minutes) ==
    IF minutes > Micro
    THEN LET h == OneMinusExp(halfTime, minutes \div 2)
             r == OneMinusExp(halfTime, minutes - minutes \div 2)
         IN  h + r - Mul9(h, r)
    ELSE LET y == Mul6(LN2, minutes)
             x == (y \div halfTime) * 100 + ((y % halfTime) * 100) \div halfTime
         IN  Mul9(x, ExpHorner(x, 2))

initTissues ==
    [ pN2 |-> [i \in Comps |-> computePinsp(SURFACE_PRESSURE, 790000)],
      pHe |-> [i \in Comps |-> 0] ]

updateConstantDepth(state, depthU, g, minutes) ==
    LET pAmb == depthToPressure(depthU)
        pN2i == computePinsp(pAmb, g.FN2)
        pHei == computePinsp(pAmb, g.FHe)
    IN  [ pN2 |-> [i \in Comps |->
                     state.pN2[i] + SMul9(pN2i - state.pN2[i],
                                          OneMinusExp(HALF_TIMES_N2[i], minutes))],
          pHe |-> [i \in Comps |->
                     state.pHe[i] + SMul9(pHei - state.pHe[i],
                                          OneMinusExp(HALF_TIMES_HE[i], minutes))] ]

----------------------------------------------------------------------------
(* Ceiling and gradient factors (algorithm.ts)                             *)

\* a ceiling whose denominator lacks the term - gf
ceilingForCompDenominator(pN2, pHe, gf, i) ==
    LET pn == Max(0, pN2)
        ph == Max(0, pHe)
        sum == pn + ph
        a == Div6(Mul6(A_N2[i], pn) + Mul6(A_HE[i], ph), sum)
        b == Div6(Mul6(B_N2[i], pn) + Mul6(B_HE[i], ph), sum)
        num == sum - SMul6(gf, a)
        den == Div6(gf, b) + Micro
        pAmbMin == Div6(num, den)
    IN  IF sum = 0 \/ num <= 0 THEN 0
        ELSE Max(0, (pAmbMin - SURFACE_PRESSURE) * (Micro \div PRESSURE_PER_METER))

\* ceiling of one compartment in micrometres
ceilingForComp(pN2, pHe, gf, i) ==
    LET pn == Max(0, pN2)
        ph == Max(0, pHe)
        sum == pn + ph
        a == Div6(Mul6(A_N2[i], pn) + Mul6(A_HE[i], ph), sum)
        b == Div6(Mul6(B_N2[i], pn) + Mul6(B_HE[i], ph), sum)
        num == sum - SMul6(gf, a)
        den == Div6(gf, b) + (Micro - gf)
        pAmbMin == Div6(num, den)
    IN  IF sum = 0 \/ num <= 0 THEN 0
        ELSE Max(0, (pAmbMin - SURFACE_PRESSURE) * (Micro \div PRESSURE_PER_METER))

RECURSIVE WorstFrom(_, _, _, _)
WorstFrom(state, gf, i, worst) ==
    IF i > 16 THEN worst
    ELSE LET c == ceilingForComp(state.pN2[i], state.pHe[i], gf, i)
         IN  WorstFrom(state, gf, i + 1, IF c > worst THEN c ELSE worst)

overallCeiling(state, gf) == WorstFrom(state, gf, 1, 0)

\* an interpolation whose fraction is not clamped to [0, 1]
gfAtDepthNoClamp(depthM_, gfLow_, gfHigh_, firstStopDepth) ==
    LET fs == Max(0, CeilDiv(Max(0, firstStopDepth), STOP_STEP) * STOP_STEP)
        frac == Micro - Div6(depthM_, Max(1, fs))
    IN  IF fs <= 0 THEN gfHigh_
        ELSE gfLow_ + SMul6(gfHigh_ - gfLow_, frac)

\* depths in whole metres, gradient factors in parts per million
gfAtDepth(depthM_, gfLow_, gfHigh_, firstStopDepth) ==
    LET fs == Max(0, CeilDiv(Max(0, firstStopDepth), STOP_STEP) * STOP_STEP)
        frac == Max(0, Min(Micro, Micro - Div6(depthM_, Max(1, fs))))
    IN  IF fs <= 0 THEN gfHigh_
        ELSE gfLow_ + SMul6(gfHigh_ - gfLow_, frac)

----------------------------------------------------------------------------
(* Oxygen toxicity (oxygen-toxicity.ts)                                    *)

\* pAmb * fO2 in microbar, at a depth in micrometres
calculatePO2(depthU, fO2) == Mul6(depthToPressure(depthU), fO2)

\* the exposure limits of CNS_TABLE in microminutes, for pO2 = 0.5, 0.6, ...,
\* 2.0 bar: the k-th key is CnsKey(k)
CNS_TABLE ==
    << 720000000, 300000000, 150000000, 90000000, 60000000, 45000000,
       35000000, 30000000, 25000000, 22500000, 15000000, 12000000,
       10000000, 8000000, 7000000, 6000000 >>
CnsKey(k) == 400000 + 100000 * k

\* (timeMinutes / maxTime) * 100, in millionths of a percent; the quotient is
\* taken on thousandths of a minute
calculateCNSIncrement(pO2, timeMinutes) ==
    IF pO2 < 500000 THEN 0
    ELSE IF pO2 <= 500000 /\ pO2 < 2000000 THEN 0
    ELSE LET lower == CHOOSE k \in 1 .. 16 :
                         /\ CnsKey(k) <= pO2
                         /\ \A m \in 1 .. 16 : CnsKey(m) <= pO2 => m <= k
             upper == CHOOSE k \in 1 .. 16 :
                         /\ CnsKey(k) >= Min(pO2, 2000000)
                         /\ \A m \in 1 .. 16 : CnsKey(m) >= Min(pO2, 2000000) => m >= k
             factor == Div6(pO2 - CnsKey(lower), CnsKey(upper) - CnsKey(lower))
             maxTime == IF pO2 >= 2000000 THEN CNS_TABLE[16]
                        ELSE IF lower = upper THEN CNS_TABLE[lower]
                        ELSE CNS_TABLE[lower]
                             - Mul6(CNS_TABLE[lower] - CNS_TABLE[upper], factor)
         IN  Div6(timeMinutes \div 1000, maxTime \div 1000) * 100

\* Math.log of x > 0, both in 10^-6: halving or doubling into [0.5, 2], then
\* 2 atanh((x - 1) / (x + 1)) by its series
RECURSIVE MathLog(_)
MathLog(x) ==
    IF x < 500000 THEN MathLog(2 * x) - LN2 \div 1000
    ELSE IF x > 2 * Micro THEN MathLog(x \div 2) + LN2 \div 1000
    ELSE LET az == Div6(Abs(x - Micro), x + Micro)
             z2 == Mul6(az, az)
             t  == Micro + Mul6(z2, 333333 + Mul6(z2, 200000 + Mul6(z2, 142857
                     + Mul6(z2, 111111 + Mul6(z2, 90909)))))
             l  == 2 * Mul6(az, t)
         IN  IF x < Micro THEN -l ELSE l

\* Math.exp of y, both in 10^-6; exp(-t) is squared down to t <= 0.5
RECURSIVE MathExp(_)
MathExp(y) ==
    IF y > 0 THEN Div6(Micro, MathExp(-y))
    ELSE IF -y > 500000
         THEN LET h == MathExp(-((-y) \div 2))
                  r == MathExp(-((-y) - (-y) \div 2))
              IN  Mul6(h, r)
         ELSE ExpHorner((-y) * 1000, 1) \div 1000

\* timeMinutes * Math.pow(pO2 - 0.5, 0.83), in millionths of a unit
calculateOTUIncrement(pO2, timeMinutes) ==
    IF pO2 <= 500000 THEN 0
    ELSE Mul6(timeMinutes, MathExp(SMul6(830000, MathLog(pO2 - 500000))))

\* the loop of calculateOxygenToxicity from the j-th segment on
RECURSIVE ToxicityFrom(_, _, _)
ToxicityFrom(segments, j, acc) ==
    IF j > Len(segments) THEN acc
    ELSE LET segment == segments[j]
             pO2 == calculatePO2(segment.depthM * Micro, segment.fO2)
         IN  ToxicityFrom(segments, j + 1,
                [cns |-> acc.cns + calculateCNSIncrement(pO2, segment.timeMinutes),
                 otu |-> acc.otu + calculateOTUIncrement(pO2, segment.timeMinutes),
                 maxPO2 |-> Max(acc.maxPO2, pO2),
                 warnings |-> acc.warnings
                    \o (IF pO2 > 1600000
                        THEN << [msg |-> "pO2 high", name |-> "segment"] >> ELSE << >>)
                    \o (IF pO2 > 2000000
                        THEN << [msg |-> "pO2 dangerous", name |-> "segment"] >>
                        ELSE << >>)])

calculateOxygenToxicity(segments) ==
    LET t == ToxicityFrom(segments, 1,
                          [cns |-> 0, otu |-> 0, maxPO2 |-> 0, warnings |-> << >>])
        W(c, m) == IF c THEN << [msg |-> m, name |-> "total"] >> ELSE << >>
    IN  [cns |-> t.cns, otu |-> t.otu, maxPO2 |-> t.maxPO2,
         warnings |-> t.warnings
            \o W(t.cns > 80 * Micro, "CNS high")
            \o W(t.cns > 100 * Micro, "CNS critical")
            \o W(t.otu > 200 * Micro, "OTU high")
            \o W(t.otu > 300 * Micro, "OTU critical")]

----------------------------------------------------------------------------
(* Inputs                                                                  *)

MaxDepth == 40
MaxBottom == 20
MaxMinLast == 1

Air == [FO2 |-> 210000, FHe |-> 0, FN2 |-> 790000]

\* the gradient factor pairs of the validation tests, in percent
GFPairs == { <<85, 85>>, <<30, 70>> }

\* the option bags a caller passes; an absent field takes its default
CoreOpts ==
    { [lastStopDepth |-> l, minLastStopMinutes |-> m] :
        l \in {3, 6}, m \in 0 .. MaxMinLast }

\* calls of planDive(depthM, bottomMin, gasIn, gfLowPct, gfHighPct, opts)
CoreCalls ==
    { [depthM |-> d, bottomMin |-> b, gasIn |-> Air,
       gfLowPct |-> g[1], gfHighPct |-> g[2], opts |-> o] :
        d \in {0, 2, 18, 30, MaxDepth}, b \in {0, 10, MaxBottom},
        g \in GFPairs, o \in CoreOpts }

\* other time steps: one minute, and the documented ten seconds (0.167)
StepCalls ==
    { [depthM |-> d, bottomMin |-> 10, gasIn |-> Air,
       gfLowPct |-> g[1], gfHighPct |-> g[2],
       opts |-> [lastStopDepth |-> 3, minLastStopMinutes |-> m,
                 timeStepMinutes |-> t]] :
        d \in {18, MaxDepth}, g \in GFPairs, m \in 0 .. MaxMinLast,
        t \in {1000000, 167000} }

\* a minimum last stop beyond the runaway guard, and a call without options
EdgeCalls ==
    { [depthM |-> 18, bottomMin |-> 10, gasIn |-> Air,
       gfLowPct |-> 85, gfHighPct |-> 85,
       opts |-> [lastStopDepth |-> 3, minLastStopMinutes |-> HELD_GUARD + 2]],
      [depthM |-> MaxDepth, bottomMin |-> 10, gasIn |-> Air,
       gfLowPct |-> 85, gfHighPct |-> 85, opts |-> << >>] }

\* mixes and gradient factors the interface documents as invalid
InvalidCalls ==
    { [depthM |-> 18, bottomMin |-> 10, gasIn |-> gg,
       gfLowPct |-> g[1], gfHighPct |-> g[2], opts |-> << >>] :
        gg \in { [FO2 |-> 800000, FHe |-> 500000, FN2 |-> 0] },
        g \in { <<85, 85>> } }
    \cup
    { [depthM |-> 18, bottomMin |-> 10, gasIn |-> Air,
       gfLowPct |-> g[1], gfHighPct |-> g[2], opts |-> << >>] :
        g \in { <<0, 85>>, <<100, 100>>, <<90, 50>>, <<85, 120>> } }

\* a ten second step on a dive that needs a fraction of a minute of stop, a
\* dive whose gradient factors keep the last stop beyond the runaway guard, and
\* a call that asks for the oxygen exposure
SpecialCalls ==
    { [depthM |-> 29, bottomMin |-> 10, gasIn |-> Air,
       gfLowPct |-> 30, gfHighPct |-> 70,
       opts |-> [lastStopDepth |-> 3, timeStepMinutes |-> 167000]],
      [depthM |-> MaxDepth, bottomMin |-> MaxBottom, gasIn |-> Air,
       gfLowPct |-> 5, gfHighPct |-> 5,
       opts |-> [lastStopDepth |-> 3, timeStepMinutes |-> 1000000]],
      [depthM |-> MaxDepth, bottomMin |-> MaxBottom, gasIn |-> Air,
       gfLowPct |-> 30, gfHighPct |-> 70,
       opts |-> [calculateO2Toxicity |-> TRUE]] }

\* the dive without decompression of the edge case test, and the profile of
\* the gradient factor test with its three pairs of gradient factors
GFTriple == << <<30, 70>>, <<40, 85>>, <<85, 85>> >>

TestCalls ==
    { [depthM |-> 15, bottomMin |-> 10, gasIn |-> Air,
       gfLowPct |-> 85, gfHighPct |-> 85, opts |-> << >>] }
    \cup
    { [depthM |-> MaxDepth, bottomMin |-> 15, gasIn |-> Air,
       gfLowPct |-> GFTriple[k][1], gfHighPct |-> GFTriple[k][2],
       opts |-> [lastStopDepth |-> l, timeStepMinutes |-> 500000]] :
        k \in 1 .. 3, l \in {3, 6} }

DiveCalls == CoreCalls \cup StepCalls \cup EdgeCalls \cup InvalidCalls
                 \cup SpecialCalls \cup TestCalls

\* calls of planDive of the adapter in front of core/algorithm.ts
ExCalls ==
    { [depthM |-> d, bottomMin |-> b, gasIn |-> Air,
       gfLowPct |-> g[1], gfHighPct |-> g[2], opts |-> o] :
        d \in {0, 18, MaxDepth}, b \in {0, 10}, g \in GFPairs, o \in CoreOpts }
    \cup
    { c \in InvalidCalls : TRUE }

EAN32 == [FO2 |-> 320000, FHe |-> 0, FN2 |-> 680000]
EAN50 == [FO2 |-> 500000, FHe |-> 0, FN2 |-> 500000]
Oxygen == [FO2 |-> 1000000, FHe |-> 0, FN2 |-> 0]

\* multi-gas.ts: the standard decompression gases
createStandardDecoGases ==
    << [depth |-> 21, gas |-> EAN50, name |-> "EAN50"],
       [depth |-> 6, gas |-> Oxygen, name |-> "O2"] >>

GasPlans ==
    { [bottomGas |-> Air, decoGases |-> << >>],
      [bottomGas |-> Air, decoGases |-> << createStandardDecoGases[1] >>],
      [bottomGas |-> Air, decoGases |-> createStandardDecoGases],
      [bottomGas |-> Air,
       decoGases |-> << [depth |-> 3, gas |-> Oxygen, name |-> "O2"],
                        createStandardDecoGases[1] >>],
      [bottomGas |-> EAN32, decoGases |-> << >>] }

\* calls of planDecompressionMultiGas(depthM, bottomMin, gasPlan, gfLow, gfHigh,
\* opts): without the oxygen exposure, with it (asked for, or by default), and
\* with a caller's own oxygen limit of 1.4 bar
MultiGasCalls ==
    { [depthM |-> d, bottomMin |-> MaxBottom, gasPlan |-> gp,
       gfLow |-> g[1] * (Micro \div 100), gfHigh |-> g[2] * (Micro \div 100),
       opts |-> [lastStopDepth |-> l, calculateO2Toxicity |-> FALSE]] :
        d \in {18, 30, MaxDepth}, gp \in GasPlans, g \in GFPairs, l \in {3, 6} }
    \cup
    { [depthM |-> 30, bottomMin |-> MaxBottom, gasPlan |-> gp,
       gfLow |-> 300000, gfHigh |-> 700000, opts |-> o] :
        gp \in GasPlans,
        o \in { << >>, [lastStopDepth |-> 6, calculateO2Toxicity |-> TRUE] } }
    \cup
    { [depthM |-> MaxDepth - 1, bottomMin |-> 10,
       gasPlan |-> [bottomGas |-> EAN32, decoGases |-> << >>],
       gfLow |-> 850000, gfHigh |-> 850000,
       opts |-> [maxPO2 |-> 1400000, calculateO2Toxicity |-> FALSE]] }

\* calls of getBestGasForDepth(depth, availableGases, currentGas, maxPO2): every
\* list, in every order, of up to three different deco gases
SwitchGases ==
    { createStandardDecoGases[1], createStandardDecoGases[2],
      [depth |-> 30, gas |-> EAN32, name |-> "EAN32"] }

GasLists ==
    { l \in UNION { [1 .. n -> SwitchGases] : n \in 0 .. 3 } :
        \A a, b \in DOMAIN l : a # b => l[a] # l[b] }

BestGasCalls ==
    { [depth |-> d, availableGases |-> l, currentGas |-> g, maxPO2 |-> m] :
        d \in {0, 3, 6, 21, 22, 30, MaxDepth}, l \in GasLists,
        g \in {Air, EAN50}, m \in {1600000, 1400000} }

\* calls of gfAtDepth(depthM, gfLow, gfHigh, firstStopDepth)
GfCalls ==
    { [depthM |-> d, gfLow |-> lo, gfHigh |-> hi, firstStopDepth |-> f] :
        d \in {0, 1, 2, 3, 5, 6, 9, 10, 20, 21, 24, 30},
        lo \in {50000, 300000, 850000, 1000000},
        hi \in {50000, 300000, 700000, 850000, 1000000},
        f \in {-3, 0, 1, 3, 4, 9, 21} }

OrDefault(o, f, dflt) == IF f \in DOMAIN o THEN o[f] ELSE dflt

----------------------------------------------------------------------------
(* State                                                                   *)

VARIABLES
    pc,            \* position of the running call
    fn,            \* the entry point that was called
    depthM, bottomMin, gas, gfLow, gfHigh,      \* arguments of planDecompression
    lastStopDepth, minLast, timeStep,           \* its options, defaults applied
    st,            \* TissueState
    descentTime, decoTime, cur,
    totalTime, steps, i,                        \* the running descent or ascent loop
    firstStop, stops, stopDepth, held,
    tts,           \* the minute counter of planDecompression in core/algorithm.ts
    ceilSeen,      \* the highest ceiling (firstCeil, ceilNext) computed so far
    gasPlan, maxPO2, validation,                \* planDecompressionMultiGas
    sortedDecoGases, currentGas, gasName,
    calculateO2, o2Segments,                    \* the oxygen exposure of the call
    result,        \* the returned plan, or the error thrown
    call,          \* the arguments of the running call, as the caller passed them
    log,           \* the calls that returned before it, with what they returned
    fp             \* planDecompression with its depths as IEEE 754 doubles

argV == << fn, depthM, bottomMin, gas, gfLow, gfHigh, lastStopDepth, minLast, timeStep >>
segV == << totalTime, steps, i >>
loopV == << firstStop, stops, stopDepth, held >>
mgArgV == << gasPlan, maxPO2, validation, sortedDecoGases >>
mgV == << mgArgV, currentGas, gasName >>
o2V == << calculateO2, o2Segments >>
otherV == << tts, ceilSeen, mgV, o2V >>
callV == << call, log >>
planV == << pc, argV, st, descentTime, decoTime, cur, segV, loopV, otherV, result, callV >>
vars == << planV, fp >>

NoGas == [FO2 |-> 0, FHe |-> 0, FN2 |-> 0]
NoTissues == [pN2 |-> [c \in Comps |-> 0], pHe |-> [c \in Comps |-> 0]]
NoResult == [kind |-> "none"]
NoPlan == [bottomGas |-> NoGas, decoGases |-> << >>]
NoValidation == [errors |-> << >>, warnings |-> << >>]
Undefined == [defined |-> FALSE]

Init ==
    /\ pc = "idle"
    /\ fn = "none"
    /\ depthM = 0 /\ bottomMin = 0 /\ gas = NoGas /\ gfLow = 0 /\ gfHigh = 0
    /\ lastStopDepth = 0 /\ minLast = 0 /\ timeStep = 0
    /\ st = NoTissues
    /\ descentTime = 0 /\ decoTime = 0 /\ cur = 0
    /\ totalTime = 0 /\ steps = 0 /\ i = 0
    /\ firstStop = 0 /\ stops = << >> /\ stopDepth = 0 /\ held = 0
    /\ tts = 0
    /\ ceilSeen = 0
    /\ gasPlan = NoPlan /\ maxPO2 = 0 /\ validation = NoValidation
    /\ sortedDecoGases = << >> /\ currentGas = NoGas /\ gasName = "undefined"
    /\ calculateO2 = FALSE /\ o2Segments = << >>
    /\ result = NoResult
    /\ call = [kind |-> "none"] /\ log = << >>
    /\ fp = [pc |-> "idle"]

\* a caller that calls the planner again: the calls that may follow another
\* call are the three plans of the gradient factor test and a plan with deco
\* gases that are not in the order of their depths
MaxCalls == 2

RepeatDives == { c \in TestCalls : c.bottomMin = 15 /\ c.opts.lastStopDepth = 3 }

RepeatMultiGas ==
    { [depthM |-> 30, bottomMin |-> MaxBottom,
       gasPlan |-> [bottomGas |-> Air,
                    decoGases |-> << [depth |-> 3, gas |-> Oxygen, name |-> "O2"],
                                     createStandardDecoGases[1] >>],
       gfLow |-> 300000, gfHigh |-> 700000, opts |-> << >>] }

Callable(first, later) == IF log = << >> THEN first ELSE later

----------------------------------------------------------------------------
(* The adapter: planDive                                                   *)

\* FO2, FHe are read, FN2 is recomputed; the sum test sees the recomputed FN2
normaliseGas(g) ==
    LET FO2 == g.FO2
        FHe == g.FHe
        FN2 == Micro - FO2 - FHe
    IN  IF Abs(FO2 + FHe + FN2 - Micro) > 1
        THEN [thrown |-> TRUE, gas |-> NoGas]
        ELSE [thrown |-> FALSE, gas |-> [FO2 |-> FO2, FHe |-> FHe, FN2 |-> FN2]]

\* a gfLow that is the complement of the percentage
normaliseGradientFactorsComplement(gfLowPct, gfHighPct) ==
    [thrown |-> FALSE,
     gfLow |-> (100 - gfLowPct) * (Micro \div 100),
     gfHigh |-> gfHighPct * (Micro \div 100)]

\* percent -> ratio, in parts per million
normaliseGradientFactors(gfLowPct, gfHighPct) ==
    [thrown |-> FALSE,
     gfLow |-> gfLowPct * (Micro \div 100), gfHigh |-> gfHighPct * (Micro \div 100)]

----------------------------------------------------------------------------
(* planDecompression, the version with timeStepMinutes                     *)

\* the time of a descent or ascent over dist micrometres, rounded up to the
\* microminute so that the last partial step reaches its target
SegmentTime(dist, rate) == CeilDiv(dist, rate)

\* tissues kept from the call before
EnterSharedTissues(f, d, b, g, gl, gh, o) ==
    LET ts == OrDefault(o, "timeStepMinutes", 500000)
        tt == SegmentTime(d * Micro, DESCENT_RATE)
        n  == CeilDiv(tt, ts)
    IN  /\ fn' = f
        /\ depthM' = d /\ bottomMin' = b /\ gas' = g /\ gfLow' = gl /\ gfHigh' = gh
        /\ lastStopDepth' = Max(0, OrDefault(o, "lastStopDepth", 3))
        /\ minLast' = Max(0, OrDefault(o, "minLastStopMinutes", 0))
        /\ timeStep' = ts
        /\ calculateO2' = OrDefault(o, "calculateO2Toxicity", FALSE)
        /\ o2Segments' = << >>
        /\ st' = IF st = NoTissues THEN initTissues ELSE st
        /\ decoTime' = 0 /\ cur' = 0
        /\ IF d > 0
           THEN /\ totalTime' = tt /\ steps' = n /\ i' = 0
                /\ descentTime' = n * ts
                /\ pc' = "descent"
           ELSE /\ UNCHANGED segV
                /\ descentTime' = 0
                /\ pc' = "bottom"
        /\ UNCHANGED << loopV, tts, ceilSeen, mgV, result >>

\* lines 66-84: options, initTissues, the set-up of the descent loop
Enter(f, d, b, g, gl, gh, o) ==
    LET ts == OrDefault(o, "timeStepMinutes", 500000)
        tt == SegmentTime(d * Micro, DESCENT_RATE)
        n  == CeilDiv(tt, ts)
    IN  /\ fn' = f
        /\ depthM' = d /\ bottomMin' = b /\ gas' = g /\ gfLow' = gl /\ gfHigh' = gh
        /\ lastStopDepth' = Max(0, OrDefault(o, "lastStopDepth", 3))
        /\ minLast' = Max(0, OrDefault(o, "minLastStopMinutes", 0))
        /\ timeStep' = ts
        /\ calculateO2' = OrDefault(o, "calculateO2Toxicity", FALSE)
        /\ o2Segments' = << >>
        /\ st' = initTissues
        /\ decoTime' = 0 /\ cur' = 0
        /\ IF d > 0
           THEN /\ totalTime' = tt /\ steps' = n /\ i' = 0
                /\ descentTime' = n * ts
                /\ pc' = "descent"
           ELSE /\ UNCHANGED segV
                /\ descentTime' = 0
                /\ pc' = "bottom"
        /\ UNCHANGED << loopV, tts, ceilSeen, mgV, result >>

planDive ==
    /\ pc = "idle"
    /\ \E c \in Callable(DiveCalls, RepeatDives) :
         (call' = c) /\
         LET ng == normaliseGas(c.gasIn)
             gf == normaliseGradientFactors(c.gfLowPct, c.gfHighPct)
         IN  IF ng.thrown \/ gf.thrown
             THEN /\ pc' = "thrown"
                  /\ fn' = "planDive"
                  /\ result' = [kind |-> "error"]
                  /\ UNCHANGED << depthM, bottomMin, gas, gfLow, gfHigh,
                                  lastStopDepth, minLast, timeStep, st,
                                  descentTime, decoTime, cur, segV, loopV, otherV >>
             ELSE Enter("planDive", c.depthM, c.bottomMin, ng.gas,
                        gf.gfLow, gf.gfHigh, c.opts)
    /\ UNCHANGED << log, fp >>

\* one iteration of a descent or ascent loop from cur towards target at rate
\* (sign = 1 down, -1 up): the depth reached and the minutes simulated
StepTime == Min(timeStep, totalTime - i * timeStep)
StepDepth(target, rate, sign) ==
    IF sign > 0 THEN Min(target, cur + rate * StepTime)
    ELSE Max(target, cur - rate * StepTime)

\* lines 85-92
DescentStep ==
    /\ pc = "descent"
    /\ fn = "planDive"
    /\ LET next == StepDepth(depthM * Micro, DESCENT_RATE, 1)
       IN  /\ st' = updateConstantDepth(st, next, gas, StepTime)
           /\ cur' = next
    /\ i' = i + 1
    /\ pc' = IF i + 1 < steps THEN "descent" ELSE "bottom"
    /\ UNCHANGED << otherV, argV, descentTime, decoTime, totalTime, steps, loopV, result >>
    /\ UNCHANGED << callV, fp >>

\* lines 96-104
Bottom ==
    /\ pc = "bottom"
    /\ fn = "planDive"
    /\ IF bottomMin > 0
       THEN /\ st' = updateConstantDepth(st, depthM * Micro, gas, bottomMin * Micro)
            /\ cur' = depthM * Micro
            /\ o2Segments' =
                 IF calculateO2
                 THEN Append(o2Segments, [depthM |-> depthM,
                                          timeMinutes |-> bottomMin * Micro,
                                          fO2 |-> gas.FO2])
                 ELSE o2Segments
       ELSE UNCHANGED << st, cur, o2Segments >>
    /\ pc' = "firstStop"
    /\ UNCHANGED << tts, ceilSeen, mgV, calculateO2, argV, descentTime, decoTime, segV, loopV, result >>
    /\ UNCHANGED << callV, fp >>

\* a first stop that is not raised to lastStopDepth
FirstStopBelowLast ==
    /\ pc = "firstStop"
    /\ fn = "planDive"
    /\ LET firstCeil == overallCeiling(st, gfLow)
           fs == CeilDiv(firstCeil, STOP_STEP * Micro) * STOP_STEP
           tt == SegmentTime(cur - fs * Micro, ASCENT_RATE)
           n  == CeilDiv(tt, timeStep)
       IN  /\ ceilSeen' = Max(ceilSeen, firstCeil)
           /\ firstStop' = fs
           /\ stopDepth' = fs
           /\ stops' = << >>
           /\ held' = 0
           /\ IF cur > fs * Micro
              THEN /\ totalTime' = tt /\ steps' = n /\ i' = 0
                   /\ decoTime' = decoTime + n * timeStep
                   /\ pc' = "ascent"
              ELSE /\ UNCHANGED << segV, decoTime >>
                   /\ pc' = "hold"
    /\ UNCHANGED << tts, mgV, o2V, argV, st, descentTime, cur, result >>
    /\ UNCHANGED << callV, fp >>

\* lines 106-115 and 127-128: first ceiling, first stop, set-up of the ascent
FirstStop ==
    /\ pc = "firstStop"
    /\ fn = "planDive"
    /\ LET firstCeil == overallCeiling(st, gfLow)
           fs == Max(lastStopDepth, CeilDiv(firstCeil, STOP_STEP * Micro) * STOP_STEP)
           tt == SegmentTime(cur - fs * Micro, ASCENT_RATE)
           n  == CeilDiv(tt, timeStep)
       IN  /\ ceilSeen' = Max(ceilSeen, firstCeil)
           /\ firstStop' = fs
           /\ stopDepth' = fs
           /\ stops' = << >>
           /\ held' = 0
           /\ IF cur > fs * Micro
              THEN /\ totalTime' = tt /\ steps' = n /\ i' = 0
                   /\ decoTime' = decoTime + n * timeStep
                   /\ pc' = "ascent"
              ELSE /\ UNCHANGED << segV, decoTime >>
                   /\ pc' = "hold"
    /\ UNCHANGED << tts, mgV, o2V, argV, st, descentTime, cur, result >>
    /\ UNCHANGED << callV, fp >>

\* lines 117-124
AscentStep ==
    /\ pc = "ascent"
    /\ fn = "planDive"
    /\ LET next == StepDepth(firstStop * Micro, ASCENT_RATE, -1)
       IN  /\ st' = updateConstantDepth(st, next, gas, StepTime)
           /\ cur' = next
    /\ i' = i + 1
    /\ pc' = IF i + 1 < steps THEN "ascent" ELSE "hold"
    /\ UNCHANGED << otherV, argV, descentTime, decoTime, totalTime, steps, loopV, result >>
    /\ UNCHANGED << callV, fp >>

\* lines 134-138: may the stop be left now
nextDepthShort == Max(0, stopDepth - (STOP_STEP - 1))
nextDepth == Max(0, stopDepth - STOP_STEP)
ceilNext == overallCeiling(st, gfAtDepth(nextDepth, gfLow, gfHigh, firstStop))
canLeaveNoMinimum ==
    ceilNext <= nextDepth * Micro + 1
canLeaveStrict ==
    /\ ceilNext <= nextDepth * Micro + 1
    /\ (stopDepth # lastStopDepth \/ held > minLast * Micro)
canLeave ==
    /\ ceilNext <= nextDepth * Micro + 1
    /\ (stopDepth # lastStopDepth \/ held >= minLast * Micro)

\* a hold loop whose guard lets two more minutes pass
HoldStepLateGuard ==
    /\ pc = "hold"
    /\ fn = "planDive"
    /\ ~canLeave
    /\ ceilSeen' = Max(ceilSeen, ceilNext)
    /\ st' = updateConstantDepth(st, stopDepth * Micro, gas, timeStep)
    /\ held' = held + timeStep
    /\ decoTime' = decoTime + timeStep
    /\ pc' = IF held + timeStep > (HELD_GUARD + 2) * Micro THEN "record" ELSE "hold"
    /\ UNCHANGED << tts, mgV, o2V, argV, descentTime, cur, segV, firstStop, stops, stopDepth, result >>
    /\ UNCHANGED << callV, fp >>

\* lines 139-145: one more time step at the stop, then the runaway guard
HoldStep ==
    /\ pc = "hold"
    /\ fn = "planDive"
    /\ ~canLeave
    /\ ceilSeen' = Max(ceilSeen, ceilNext)
    /\ st' = updateConstantDepth(st, stopDepth * Micro, gas, timeStep)
    /\ held' = held + timeStep
    /\ decoTime' = decoTime + timeStep
    /\ pc' = IF held + timeStep > HELD_GUARD * Micro THEN "record" ELSE "hold"
    /\ UNCHANGED << tts, mgV, o2V, argV, descentTime, cur, segV, firstStop, stops, stopDepth, result >>
    /\ UNCHANGED << callV, fp >>

\* line 139: break
LeaveStop ==
    /\ pc = "hold"
    /\ fn = "planDive"
    /\ canLeave
    /\ ceilSeen' = Max(ceilSeen, ceilNext)
    /\ pc' = "record"
    /\ UNCHANGED << tts, mgV, o2V, argV, st, descentTime, decoTime, cur, segV, loopV, result >>
    /\ UNCHANGED << callV, fp >>

\* lines 148-165: record the stop, set up the ascent of one stop step
RecordStop ==
    /\ pc = "record"
    /\ fn = "planDive"
    /\ stops' = IF held > 0
                THEN Append(stops, [depth |-> stopDepth, time |-> MathRound(held),
                                    gf |-> gfAtDepth(stopDepth, gfLow, gfHigh, firstStop)])
                ELSE stops
    /\ o2Segments' =
         IF held > 0 /\ calculateO2
         THEN Append(o2Segments, [depthM |-> stopDepth, timeMinutes |-> held,
                                  fO2 |-> gas.FO2])
         ELSE o2Segments
    /\ LET tt == SegmentTime(cur - nextDepth * Micro, ASCENT_RATE)
           n  == CeilDiv(tt, timeStep)
       IN  IF cur > nextDepth * Micro
           THEN /\ totalTime' = tt /\ steps' = n /\ i' = 0
                /\ decoTime' = decoTime + n * timeStep
                /\ pc' = "stopAscent"
           ELSE /\ UNCHANGED << segV, decoTime >>
                /\ pc' = "next"
    /\ UNCHANGED << tts, ceilSeen, mgV, calculateO2, argV, st, descentTime, cur,
                    firstStop, stopDepth, held, result >>
    /\ UNCHANGED << callV, fp >>

\* lines 167-174
StopAscentStep ==
    /\ pc = "stopAscent"
    /\ fn = "planDive"
    /\ LET d == StepDepth(nextDepth * Micro, ASCENT_RATE, -1)
       IN  /\ st' = updateConstantDepth(st, d, gas, StepTime)
           /\ cur' = d
    /\ i' = i + 1
    /\ pc' = IF i + 1 < steps THEN "stopAscent" ELSE "next"
    /\ UNCHANGED << otherV, argV, descentTime, decoTime, totalTime, steps, loopV, result >>
    /\ UNCHANGED << callV, fp >>

\* lines 176-187 and 131: the next stop, or out of the loop and the set-up of
\* the final ascent
NextStop ==
    /\ pc = "next"
    /\ fn = "planDive"
    /\ stopDepth' = nextDepth
    /\ LET tt == SegmentTime(cur, ASCENT_RATE)
           n  == CeilDiv(tt, timeStep)
       IN  IF ~(nextDepth = 0 /\ cur = 0) /\ nextDepth >= lastStopDepth
           THEN /\ held' = 0
                /\ pc' = "hold"
                /\ UNCHANGED << segV, decoTime >>
           ELSE /\ UNCHANGED held
                /\ IF cur > 0
                   THEN /\ totalTime' = tt /\ steps' = n /\ i' = 0
                        /\ decoTime' = decoTime + n * timeStep
                        /\ pc' = "finalAscent"
                   ELSE /\ UNCHANGED << segV, decoTime >>
                        /\ pc' = "return"
    /\ UNCHANGED << otherV, argV, st, descentTime, cur, firstStop, stops, result >>
    /\ UNCHANGED << callV, fp >>

\* lines 189-196
FinalAscentStep ==
    /\ pc = "finalAscent"
    /\ fn = "planDive"
    /\ LET d == StepDepth(0, ASCENT_RATE, -1)
       IN  /\ st' = updateConstantDepth(st, d, gas, StepTime)
           /\ cur' = d
    /\ i' = i + 1
    /\ pc' = IF i + 1 < steps THEN "finalAscent" ELSE "return"
    /\ UNCHANGED << otherV, argV, descentTime, decoTime, totalTime, steps, loopV, result >>
    /\ UNCHANGED << callV, fp >>

\* line 200
totalDiveTimeNoBottom == descentTime + decoTime
totalDiveTime == descentTime + bottomMin * Micro + decoTime

\* lines 202-222
Return ==
    /\ pc = "return"
    /\ fn = "planDive"
    /\ result' = [kind |-> "plan",
                  firstStopDepth |-> firstStop,
                  stops |-> stops,
                  tts |-> MathRound(decoTime),
                  totalDiveTime |-> MathRound(totalDiveTime),
                  descentTime |-> MathRound(descentTime),
                  bottomTime |-> bottomMin,
                  oxygenToxicity |->
                      IF calculateO2 /\ Len(o2Segments) > 0
                      THEN LET toxicity == calculateOxygenToxicity(o2Segments)
                           IN  [defined |-> TRUE, cns |-> toxicity.cns,
                                otu |-> toxicity.otu, maxPO2 |-> toxicity.maxPO2,
                                warnings |-> toxicity.warnings]
                      ELSE Undefined]
    /\ pc' = "done"
    /\ UNCHANGED << otherV, argV, st, descentTime, decoTime, cur, segV, loopV >>
    /\ UNCHANGED << callV, fp >>

----------------------------------------------------------------------------
(* The adapter with input validation (examples/improved-features.ts)       *)

\* a supplied FN2 is kept unless it is 0 (falsy), then it is recomputed
normaliseGasEx(g) ==
    LET FO2 == g.FO2
        FHe == g.FHe
        FN2 == IF g.FN2 # 0 THEN g.FN2 ELSE Micro - FO2 - FHe
        sum == FO2 + FHe + FN2
    IN  IF \/ FO2 < 0 \/ FO2 > Micro
           \/ FHe < 0 \/ FHe > Micro
           \/ FN2 < 0 \/ FN2 > Micro
           \/ Abs(sum - Micro) > 1
        THEN [thrown |-> TRUE, gas |-> NoGas]
        ELSE [thrown |-> FALSE, gas |-> [FO2 |-> FO2, FHe |-> FHe, FN2 |-> FN2]]

normaliseGradientFactorsEx(gfLowPct, gfHighPct) ==
    [thrown |-> \/ gfLowPct < 0 \/ gfLowPct > 100
                \/ gfHighPct < 0 \/ gfHighPct > 100
                \/ gfLowPct > gfHighPct,
     gfLow |-> gfLowPct * (Micro \div 100), gfHigh |-> gfHighPct * (Micro \div 100)]

----------------------------------------------------------------------------
(* planDecompression of core/algorithm.ts: whole-minute steps              *)

\* lines 82-91
CoreEnter(d, b, g, gl, gh, o) ==
    /\ fn' = "planDiveEx"
    /\ depthM' = d /\ bottomMin' = b /\ gas' = g /\ gfLow' = gl /\ gfHigh' = gh
    /\ lastStopDepth' = Max(0, OrDefault(o, "lastStopDepth", 3))
    /\ minLast' = Max(0, OrDefault(o, "minLastStopMinutes", 0))
    /\ st' = initTissues
    /\ tts' = 0 /\ cur' = 0
    /\ IF d > 0
       THEN /\ steps' = CeilDiv(d, DESCENT_RATE) /\ i' = 0
            /\ pc' = "descent"
       ELSE /\ UNCHANGED << steps, i >>
            /\ pc' = "bottom"
    /\ UNCHANGED << ceilSeen, mgV, o2V, timeStep, descentTime, decoTime, totalTime, loopV, result >>

planDiveEx ==
    /\ pc = "idle"
    /\ \E c \in Callable(ExCalls, {}) :
         (call' = c) /\
         LET ng == normaliseGasEx(c.gasIn)
             gf == normaliseGradientFactorsEx(c.gfLowPct, c.gfHighPct)
         IN  IF ng.thrown \/ gf.thrown
             THEN /\ pc' = "thrown"
                  /\ fn' = "planDiveEx"
                  /\ result' = [kind |-> "error"]
                  /\ UNCHANGED << depthM, bottomMin, gas, gfLow, gfHigh,
                                  lastStopDepth, minLast, timeStep, st,
                                  descentTime, decoTime, cur, segV, loopV, otherV >>
             ELSE CoreEnter(c.depthM, c.bottomMin, ng.gas, gf.gfLow, gf.gfHigh, c.opts)
    /\ UNCHANGED << log, fp >>

\* lines 92-96
CoreDescentStep ==
    /\ pc = "descent"
    /\ fn = "planDiveEx"
    /\ LET next == Min(depthM * Micro, cur + DESCENT_RATE * Micro)
       IN  /\ st' = updateConstantDepth(st, next, gas, Micro)
           /\ cur' = next
    /\ tts' = tts + 1
    /\ i' = i + 1
    /\ pc' = IF i + 1 < steps THEN "descent" ELSE "bottom"
    /\ UNCHANGED << ceilSeen, mgV, o2V, argV, descentTime, decoTime, totalTime, steps, loopV, result >>
    /\ UNCHANGED << callV, fp >>

\* lines 100-103
CoreBottom ==
    /\ pc = "bottom"
    /\ fn = "planDiveEx"
    /\ IF bottomMin > 0
       THEN /\ st' = updateConstantDepth(st, depthM * Micro, gas, bottomMin * Micro)
            /\ cur' = depthM * Micro
            /\ tts' = tts + bottomMin
       ELSE UNCHANGED << st, cur, tts >>
    /\ pc' = "firstStop"
    /\ UNCHANGED << ceilSeen, mgV, o2V, argV, descentTime, decoTime, segV, loopV, result >>
    /\ UNCHANGED << callV, fp >>

\* lines 106-111 and 119-120
CoreFirstStop ==
    /\ pc = "firstStop"
    /\ fn = "planDiveEx"
    /\ LET firstCeil == overallCeiling(st, gfLow)
           fs == Max(lastStopDepth, CeilDiv(firstCeil, STOP_STEP * Micro) * STOP_STEP)
       IN  /\ firstStop' = fs
           /\ stopDepth' = fs
           /\ stops' = << >>
           /\ held' = 0
           /\ IF cur > fs * Micro
              THEN /\ steps' = CeilDiv(cur - fs * Micro, ASCENT_RATE * Micro) /\ i' = 0
                   /\ pc' = "ascent"
              ELSE /\ UNCHANGED << steps, i >>
                   /\ pc' = "hold"
    /\ UNCHANGED << ceilSeen, mgV, o2V, argV, st, descentTime, decoTime, cur, totalTime, tts, result >>
    /\ UNCHANGED << callV, fp >>

\* lines 112-116
CoreAscentStep ==
    /\ pc = "ascent"
    /\ fn = "planDiveEx"
    /\ LET next == Max(firstStop * Micro, cur - ASCENT_RATE * Micro)
       IN  /\ st' = updateConstantDepth(st, next, gas, Micro)
           /\ cur' = next
    /\ tts' = tts + 1
    /\ i' = i + 1
    /\ pc' = IF i + 1 < steps THEN "ascent" ELSE "hold"
    /\ UNCHANGED << ceilSeen, mgV, o2V, argV, descentTime, decoTime, totalTime, steps, loopV, result >>
    /\ UNCHANGED << callV, fp >>

\* lines 125-137
CoreHoldStep ==
    /\ pc = "hold"
    /\ fn = "planDiveEx"
    /\ ~canLeave
    /\ st' = updateConstantDepth(st, stopDepth * Micro, gas, Micro)
    /\ held' = held + Micro
    /\ tts' = tts + 1
    /\ pc' = IF held + Micro > HELD_GUARD * Micro THEN "record" ELSE "hold"
    /\ UNCHANGED << ceilSeen, mgV, o2V, argV, descentTime, decoTime, cur, segV, firstStop, stops,
                    stopDepth, result >>
    /\ UNCHANGED << callV, fp >>

\* line 131
CoreLeaveStop ==
    /\ pc = "hold"
    /\ fn = "planDiveEx"
    /\ canLeave
    /\ pc' = "record"
    /\ UNCHANGED << otherV, argV, st, descentTime, decoTime, cur, segV, loopV, result >>
    /\ UNCHANGED << callV, fp >>

\* lines 139-146
CoreRecordStop ==
    /\ pc = "record"
    /\ fn = "planDiveEx"
    /\ stops' = IF held > 0
                THEN Append(stops, [depth |-> stopDepth, time |-> held \div Micro,
                                    gf |-> gfAtDepth(stopDepth, gfLow, gfHigh, firstStop)])
                ELSE stops
    /\ IF cur > nextDepth * Micro
       THEN /\ steps' = CeilDiv(cur - nextDepth * Micro, ASCENT_RATE * Micro) /\ i' = 0
            /\ pc' = "stopAscent"
       ELSE /\ UNCHANGED << steps, i >>
            /\ pc' = "next"
    /\ UNCHANGED << otherV, argV, st, descentTime, decoTime, cur, totalTime,
                    firstStop, stopDepth, held, result >>
    /\ UNCHANGED << callV, fp >>

\* lines 147-151
CoreStopAscentStep ==
    /\ pc = "stopAscent"
    /\ fn = "planDiveEx"
    /\ LET d == Max(nextDepth * Micro, cur - ASCENT_RATE * Micro)
       IN  /\ st' = updateConstantDepth(st, d, gas, Micro)
           /\ cur' = d
    /\ tts' = tts + 1
    /\ i' = i + 1
    /\ pc' = IF i + 1 < steps THEN "stopAscent" ELSE "next"
    /\ UNCHANGED << ceilSeen, mgV, o2V, argV, descentTime, decoTime, totalTime, steps, loopV, result >>
    /\ UNCHANGED << callV, fp >>

\* lines 153-161 and 123
CoreNextStop ==
    /\ pc = "next"
    /\ fn = "planDiveEx"
    /\ stopDepth' = nextDepth
    /\ IF ~(nextDepth = 0 /\ cur = 0) /\ nextDepth >= lastStopDepth
       THEN /\ held' = 0
            /\ pc' = "hold"
            /\ UNCHANGED << steps, i >>
       ELSE /\ UNCHANGED held
            /\ IF cur > 0
               THEN /\ steps' = CeilDiv(cur, ASCENT_RATE * Micro) /\ i' = 0
                    /\ pc' = "finalAscent"
               ELSE /\ UNCHANGED << steps, i >>
                    /\ pc' = "return"
    /\ UNCHANGED << otherV, argV, st, descentTime, decoTime, cur, totalTime,
                    firstStop, stops, result >>
    /\ UNCHANGED << callV, fp >>

\* lines 162-166
CoreFinalAscentStep ==
    /\ pc = "finalAscent"
    /\ fn = "planDiveEx"
    /\ LET d == Max(0, cur - ASCENT_RATE * Micro)
       IN  /\ st' = updateConstantDepth(st, d, gas, Micro)
           /\ cur' = d
    /\ tts' = tts + 1
    /\ i' = i + 1
    /\ pc' = IF i + 1 < steps THEN "finalAscent" ELSE "return"
    /\ UNCHANGED << ceilSeen, mgV, o2V, argV, descentTime, decoTime, totalTime, steps, loopV, result >>
    /\ UNCHANGED << callV, fp >>

\* lines 170-174
CoreReturn ==
    /\ pc = "return"
    /\ fn = "planDiveEx"
    /\ result' = [kind |-> "plan",
                  firstStopDepth |-> firstStop,
                  stops |-> stops,
                  tts |-> tts]
    /\ pc' = "done"
    /\ UNCHANGED << otherV, argV, st, descentTime, decoTime, cur, segV, loopV >>
    /\ UNCHANGED << callV, fp >>

----------------------------------------------------------------------------
----------------------------------------------------------------------------
(* multi-gas.ts and oxygen-toxicity.ts                                     *)

\* (maxPO2 / fO2 - 1.01325) * 10 in micrometres; fO2 = 0 gives Infinity
calculateMaxDepth(fO2, maxPO2_) ==
    IF fO2 = 0 THEN 1000 * Micro
    ELSE (Div6(maxPO2_, fO2) - 1013250) * 10

\* Array.prototype.sort((a, b) => b.depth - a.depth): stable, deepest first
InsertByDepth(x, sorted) ==
    LET k == Cardinality({ j \in 1 .. Len(sorted) : sorted[j].depth >= x.depth })
    IN  SubSeq(sorted, 1, k) \o << x >> \o SubSeq(sorted, k + 1, Len(sorted))

RECURSIVE SortByDepth(_)
SortByDepth(gases) ==
    IF gases = << >> THEN << >>
    ELSE InsertByDepth(gases[Len(gases)], SortByDepth(SubSeq(gases, 1, Len(gases) - 1)))

\* the loop of lines 31-46 from the j-th available gas on, best = [gas, name,
\* shouldSwitch] so far
RECURSIVE BestFrom(_, _, _, _, _)
BestFrom(j, depthU, availableGases, maxPO2_, best) ==
    IF j > Len(availableGases) THEN best
    ELSE LET gasSwitch == availableGases[j]
             usable == /\ depthU >= gasSwitch.depth * Micro
                       /\ calculatePO2(depthU, gasSwitch.gas.FO2) <= maxPO2_
                       /\ gasSwitch.gas.FO2 > best.gas.FO2
         IN  BestFrom(j + 1, depthU, availableGases, maxPO2_,
                      IF usable
                      THEN [gas |-> gasSwitch.gas, name |-> gasSwitch.name,
                            shouldSwitch |-> TRUE]
                      ELSE best)

getBestGasForDepth(depthU, availableGases, currentGas_, maxPO2_) ==
    LET currentPO2 == calculatePO2(depthU, currentGas_.FO2)
        best == BestFrom(1, depthU, availableGases, maxPO2_,
                         [gas |-> currentGas_, name |-> "undefined",
                          shouldSwitch |-> FALSE])
        shouldSwitch == best.shouldSwitch \/ currentPO2 > maxPO2_
    IN  [gas |-> best.gas, name |-> best.name,
         shouldSwitch |-> shouldSwitch /\ best.gas # currentGas_]

\* the messages of lines 83-94 for the deco gases from the j-th on
RECURSIVE DecoErrors(_, _)
DecoErrors(plan, j) ==
    IF j > Len(plan.decoGases) THEN << >>
    ELSE LET decoGas == plan.decoGases[j]
             maxDepthForGas == calculateMaxDepth(decoGas.gas.FO2, 1600000)
         IN  (IF decoGas.depth * Micro > maxDepthForGas
              THEN << [msg |-> "too deep", name |-> decoGas.name] >> ELSE << >>)
             \o DecoErrors(plan, j + 1)

RECURSIVE DecoWarnings(_, _)
DecoWarnings(plan, j) ==
    IF j > Len(plan.decoGases) THEN << >>
    ELSE LET decoGas == plan.decoGases[j]
         IN  (IF decoGas.gas.FO2 <= plan.bottomGas.FO2
              THEN << [msg |-> "not richer", name |-> decoGas.name] >> ELSE << >>)
             \o DecoWarnings(plan, j + 1)

validateMultiGasPlan(plan, maxDepthM) ==
    LET bottomPO2 == calculatePO2(maxDepthM * Micro, plan.bottomGas.FO2)
        sortedGases == SortByDepth(plan.decoGases)
        unsorted == \E j \in 1 .. Len(plan.decoGases) :
                        plan.decoGases[j].depth # sortedGases[j].depth
    IN  [errors |->
            (IF bottomPO2 > 1600000
             THEN << [msg |-> "bottom pO2 dangerous", name |-> "bottom"] >> ELSE << >>)
            \o DecoErrors(plan, 1),
         warnings |->
            (IF bottomPO2 > 1400000
             THEN << [msg |-> "bottom pO2 high", name |-> "bottom"] >> ELSE << >>)
            \o DecoWarnings(plan, 1)
            \o (IF unsorted THEN << [msg |-> "not sorted", name |-> "deco"] >> ELSE << >>)]

----------------------------------------------------------------------------
(* planDecompressionMultiGas                                               *)

MG == "planDecompressionMultiGas"

\* line 248: the validation found errors
hasErrorsSeveral(v) == Len(v.errors) > 1
hasErrors(v) == Len(v.errors) > 0

\* lines 240-250: options, validation, the throw
planDecompressionMultiGas ==
    /\ pc = "idle"
    /\ \E c \in Callable(MultiGasCalls, RepeatMultiGas) :
         (call' = c) /\
         LET v == validateMultiGasPlan(c.gasPlan, c.depthM)
         IN  /\ fn' = MG
             /\ depthM' = c.depthM /\ bottomMin' = c.bottomMin
             /\ gfLow' = c.gfLow /\ gfHigh' = c.gfHigh
             /\ lastStopDepth' = Max(0, OrDefault(c.opts, "lastStopDepth", 3))
             /\ minLast' = Max(0, OrDefault(c.opts, "minLastStopMinutes", 0))
             /\ timeStep' = OrDefault(c.opts, "timeStepMinutes", 500000)
             /\ calculateO2' = OrDefault(c.opts, "calculateO2Toxicity", TRUE)
             /\ maxPO2' = OrDefault(c.opts, "maxPO2", 1600000)
             /\ gasPlan' = c.gasPlan
             /\ validation' = v
             /\ IF hasErrors(v)
                THEN /\ pc' = "thrown"
                     /\ result' = [kind |-> "error"]
                ELSE /\ pc' = "init"
                     /\ UNCHANGED result
    /\ UNCHANGED << gas, st, descentTime, decoTime, cur, segV, loopV, tts, ceilSeen,
                    sortedDecoGases, currentGas, gasName, o2Segments >>
    /\ UNCHANGED << log, fp >>

\* lines 252-268: initTissues, the bottom gas, the sorted deco gases, the
\* set-up of the descent loop
MGInit ==
    /\ pc = "init"
    /\ fn = MG
    /\ st' = initTissues
    /\ decoTime' = 0 /\ cur' = 0
    /\ currentGas' = gasPlan.bottomGas
    /\ o2Segments' = << >>
    /\ sortedDecoGases' = SortByDepth(gasPlan.decoGases)
    /\ LET tt == SegmentTime(depthM * Micro, DESCENT_RATE)
           n  == CeilDiv(tt, timeStep)
       IN  IF depthM > 0
           THEN /\ totalTime' = tt /\ steps' = n /\ i' = 0
                /\ descentTime' = n * timeStep
                /\ pc' = "descent"
           ELSE /\ UNCHANGED segV
                /\ descentTime' = 0
                /\ pc' = "bottom"
    /\ UNCHANGED << argV, loopV, tts, ceilSeen, gasPlan, maxPO2, validation, gasName,
                    calculateO2, result >>
    /\ UNCHANGED << callV, fp >>

\* lines 270-277
MGDescentStep ==
    /\ pc = "descent"
    /\ fn = MG
    /\ LET next == StepDepth(depthM * Micro, DESCENT_RATE, 1)
       IN  /\ st' = updateConstantDepth(st, next, currentGas, StepTime)
           /\ cur' = next
    /\ i' = i + 1
    /\ pc' = IF i + 1 < steps THEN "descent" ELSE "bottom"
    /\ UNCHANGED << otherV, argV, descentTime, decoTime, totalTime, steps, loopV, result >>
    /\ UNCHANGED << callV, fp >>

\* lines 281-288
MGBottom ==
    /\ pc = "bottom"
    /\ fn = MG
    /\ IF bottomMin > 0
       THEN /\ st' = updateConstantDepth(st, depthM * Micro, currentGas, bottomMin * Micro)
            /\ cur' = depthM * Micro
            /\ o2Segments' =
                 IF calculateO2
                 THEN Append(o2Segments, [depthM |-> depthM,
                                          timeMinutes |-> bottomMin * Micro,
                                          fO2 |-> currentGas.FO2])
                 ELSE o2Segments
       ELSE UNCHANGED << st, cur, o2Segments >>
    /\ pc' = "firstStop"
    /\ UNCHANGED << tts, ceilSeen, mgV, calculateO2, argV, descentTime, decoTime, segV, loopV, result >>
    /\ UNCHANGED << callV, fp >>

\* lines 291-299 and 318-319
MGFirstStop ==
    /\ pc = "firstStop"
    /\ fn = MG
    /\ LET firstCeil == overallCeiling(st, gfLow)
           fs == Max(lastStopDepth, CeilDiv(firstCeil, STOP_STEP * Micro) * STOP_STEP)
           tt == SegmentTime(cur - fs * Micro, ASCENT_RATE)
           n  == CeilDiv(tt, timeStep)
       IN  /\ ceilSeen' = Max(ceilSeen, firstCeil)
           /\ firstStop' = fs
           /\ stopDepth' = fs
           /\ stops' = << >>
           /\ held' = 0
           /\ IF cur > fs * Micro
              THEN /\ totalTime' = tt /\ steps' = n /\ i' = 0
                   /\ decoTime' = decoTime + n * timeStep
                   /\ pc' = "ascent"
              ELSE /\ UNCHANGED << segV, decoTime >>
                   /\ pc' = "stopGas"
    /\ UNCHANGED << tts, mgV, o2V, argV, st, descentTime, cur, result >>
    /\ UNCHANGED << callV, fp >>

\* lines 301-315: an ascent step, with the gas chosen for the depth reached
MGAscentStep ==
    /\ pc = "ascent"
    /\ fn = MG
    /\ LET next == StepDepth(firstStop * Micro, ASCENT_RATE, -1)
           gasChoice == getBestGasForDepth(next, sortedDecoGases, currentGas, maxPO2)
           g == IF gasChoice.shouldSwitch THEN gasChoice.gas ELSE currentGas
       IN  /\ currentGas' = g
           /\ st' = updateConstantDepth(st, next, g, StepTime)
           /\ cur' = next
    /\ i' = i + 1
    /\ pc' = IF i + 1 < steps THEN "ascent" ELSE "stopGas"
    /\ UNCHANGED << o2V, tts, ceilSeen, mgArgV, gasName, argV, descentTime, decoTime,
                    totalTime, steps, loopV, result >>
    /\ UNCHANGED << callV, fp >>

\* lines 323-329: a stop begins, with the gas chosen for its depth
MGChooseGas ==
    /\ pc = "stopGas"
    /\ fn = MG
    /\ LET gasChoice == getBestGasForDepth(stopDepth * Micro, sortedDecoGases,
                                           currentGas, maxPO2)
       IN  /\ currentGas' = IF gasChoice.shouldSwitch THEN gasChoice.gas ELSE currentGas
           /\ gasName' = gasChoice.name
    /\ held' = 0
    /\ pc' = "hold"
    /\ UNCHANGED << o2V, tts, ceilSeen, mgArgV, argV, st, descentTime, decoTime, cur, segV,
                    firstStop, stops, stopDepth, result >>
    /\ UNCHANGED << callV, fp >>

\* lines 339-343
MGHoldStep ==
    /\ pc = "hold"
    /\ fn = MG
    /\ ~canLeave
    /\ ceilSeen' = Max(ceilSeen, ceilNext)
    /\ st' = updateConstantDepth(st, stopDepth * Micro, currentGas, timeStep)
    /\ held' = held + timeStep
    /\ decoTime' = decoTime + timeStep
    /\ pc' = IF held + timeStep > HELD_GUARD * Micro THEN "record" ELSE "hold"
    /\ UNCHANGED << tts, mgV, o2V, argV, descentTime, cur, segV, firstStop, stops, stopDepth, result >>
    /\ UNCHANGED << callV, fp >>

\* line 337: break
MGLeaveStop ==
    /\ pc = "hold"
    /\ fn = MG
    /\ canLeave
    /\ ceilSeen' = Max(ceilSeen, ceilNext)
    /\ pc' = "record"
    /\ UNCHANGED << tts, mgV, o2V, argV, st, descentTime, decoTime, cur, segV, loopV, result >>
    /\ UNCHANGED << callV, fp >>

\* lines 346-368
MGRecordStop ==
    /\ pc = "record"
    /\ fn = MG
    /\ stops' = IF held > 0
                THEN Append(stops, [depth |-> stopDepth, time |-> MathRound(held),
                                    gf |-> gfAtDepth(stopDepth, gfLow, gfHigh, firstStop),
                                    gas |-> currentGas, gasName |-> gasName])
                ELSE stops
    /\ o2Segments' =
         IF held > 0 /\ calculateO2
         THEN Append(o2Segments, [depthM |-> stopDepth, timeMinutes |-> held,
                                  fO2 |-> currentGas.FO2])
         ELSE o2Segments
    /\ LET tt == SegmentTime(cur - nextDepth * Micro, ASCENT_RATE)
           n  == CeilDiv(tt, timeStep)
       IN  IF cur > nextDepth * Micro
           THEN /\ totalTime' = tt /\ steps' = n /\ i' = 0
                /\ decoTime' = decoTime + n * timeStep
                /\ pc' = "stopAscent"
           ELSE /\ UNCHANGED << segV, decoTime >>
                /\ pc' = "next"
    /\ UNCHANGED << tts, ceilSeen, mgV, calculateO2, argV, st, descentTime, cur,
                    firstStop, stopDepth, held, result >>
    /\ UNCHANGED << callV, fp >>

\* lines 370-384
MGStopAscentStep ==
    /\ pc = "stopAscent"
    /\ fn = MG
    /\ LET d == StepDepth(nextDepth * Micro, ASCENT_RATE, -1)
           gasChoice == getBestGasForDepth(d, sortedDecoGases, currentGas, maxPO2)
           g == IF gasChoice.shouldSwitch THEN gasChoice.gas ELSE currentGas
       IN  /\ currentGas' = g
           /\ st' = updateConstantDepth(st, d, g, StepTime)
           /\ cur' = d
    /\ i' = i + 1
    /\ pc' = IF i + 1 < steps THEN "stopAscent" ELSE "next"
    /\ UNCHANGED << o2V, tts, ceilSeen, mgArgV, gasName, argV, descentTime, decoTime,
                    totalTime, steps, loopV, result >>
    /\ UNCHANGED << callV, fp >>

\* lines 386-396 and 322
MGNextStop ==
    /\ pc = "next"
    /\ fn = MG
    /\ stopDepth' = nextDepth
    /\ LET tt == SegmentTime(cur, ASCENT_RATE)
           n  == CeilDiv(tt, timeStep)
       IN  IF ~(nextDepth = 0 /\ cur = 0) /\ nextDepth >= lastStopDepth
           THEN /\ pc' = "stopGas"
                /\ UNCHANGED << segV, decoTime >>
           ELSE IF cur > 0
                THEN /\ totalTime' = tt /\ steps' = n /\ i' = 0
                     /\ decoTime' = decoTime + n * timeStep
                     /\ pc' = "finalAscent"
                ELSE /\ UNCHANGED << segV, decoTime >>
                     /\ pc' = "return"
    /\ UNCHANGED << otherV, argV, st, descentTime, cur, firstStop, stops, held, result >>
    /\ UNCHANGED << callV, fp >>

\* lines 398-405
MGFinalAscentStep ==
    /\ pc = "finalAscent"
    /\ fn = MG
    /\ LET d == StepDepth(0, ASCENT_RATE, -1)
       IN  /\ st' = updateConstantDepth(st, d, currentGas, StepTime)
           /\ cur' = d
    /\ i' = i + 1
    /\ pc' = IF i + 1 < steps THEN "finalAscent" ELSE "return"
    /\ UNCHANGED << otherV, argV, descentTime, decoTime, totalTime, steps, loopV, result >>
    /\ UNCHANGED << callV, fp >>

\* lines 409-430 (line 409 is totalDiveTime)
MGReturn ==
    /\ pc = "return"
    /\ fn = MG
    /\ result' = [kind |-> "plan",
                  firstStopDepth |-> firstStop,
                  stops |-> stops,
                  tts |-> MathRound(decoTime),
                  totalDiveTime |-> MathRound(totalDiveTime),
                  descentTime |-> MathRound(descentTime),
                  bottomTime |-> bottomMin,
                  oxygenToxicity |->
                      IF calculateO2 /\ Len(o2Segments) > 0
                      THEN LET toxicity == calculateOxygenToxicity(o2Segments)
                           IN  [defined |-> TRUE, cns |-> toxicity.cns,
                                otu |-> toxicity.otu, maxPO2 |-> toxicity.maxPO2,
                                warnings |-> toxicity.warnings \o validation.warnings]
                      ELSE Undefined]
    /\ pc' = "done"
    /\ UNCHANGED << otherV, argV, st, descentTime, decoTime, cur, segV, loopV >>
    /\ UNCHANGED << callV, fp >>

----------------------------------------------------------------------------
(* Direct calls of the exported helpers                                    *)

\* multi-gas.ts lines 16-58, called on its own: the arguments are kept in cur,
\* sortedDecoGases, currentGas and maxPO2
CallGetBestGasForDepth ==
    /\ pc = "idle"
    /\ \E c \in Callable(BestGasCalls, {}) :
        /\ call' = c
        /\ fn' = "getBestGasForDepth"
        /\ cur' = c.depth * Micro
        /\ sortedDecoGases' = c.availableGases
        /\ currentGas' = c.currentGas
        /\ maxPO2' = c.maxPO2
        /\ LET best == getBestGasForDepth(c.depth * Micro, c.availableGases,
                                           c.currentGas, c.maxPO2)
           IN  result' = [kind |-> "gasChoice", gas |-> best.gas,
                          name |-> best.name, shouldSwitch |-> best.shouldSwitch]
    /\ pc' = "done"
    /\ UNCHANGED << depthM, bottomMin, gas, gfLow, gfHigh, lastStopDepth, minLast,
                    timeStep, st, descentTime, decoTime, segV, loopV, tts, ceilSeen,
                    gasPlan, validation, gasName, o2V >>
    /\ UNCHANGED << log, fp >>

\* algorithm.ts lines 43-48, called on its own: the arguments are kept in
\* depthM, gfLow, gfHigh and firstStop
CallGfAtDepth ==
    /\ pc = "idle"
    /\ \E c \in Callable({ x \in GfCalls : x.gfLow <= x.gfHigh }, {}) :
        /\ call' = c
        /\ fn' = "gfAtDepth"
        /\ depthM' = c.depthM
        /\ gfLow' = c.gfLow
        /\ gfHigh' = c.gfHigh
        /\ firstStop' = c.firstStopDepth
        /\ result' = [kind |-> "gf",
                      gf |-> gfAtDepth(c.depthM, c.gfLow, c.gfHigh, c.firstStopDepth)]
    /\ pc' = "done"
    /\ UNCHANGED << bottomMin, gas, lastStopDepth, minLast, timeStep, st,
                    descentTime, decoTime, cur, segV, stops, stopDepth, held,
                    otherV >>
    /\ UNCHANGED << log, fp >>

----------------------------------------------------------------------------
Next ==
    \/ planDive
    \/ planDiveEx
    \/ CoreDescentStep
    \/ CoreBottom
    \/ CoreFirstStop
    \/ CoreAscentStep
    \/ CoreHoldStep
    \/ CoreLeaveStop
    \/ CoreRecordStop
    \/ CoreStopAscentStep
    \/ CoreNextStop
    \/ CoreFinalAscentStep
    \/ CoreReturn
    \/ planDecompressionMultiGas
    \/ MGInit
    \/ MGDescentStep
    \/ MGBottom
    \/ MGFirstStop
    \/ MGAscentStep
    \/ MGChooseGas
    \/ MGHoldStep
    \/ MGLeaveStop
    \/ MGRecordStop
    \/ MGStopAscentStep
    \/ MGNextStop
    \/ MGFinalAscentStep
    \/ MGReturn
    \/ DescentStep
    \/ Bottom
    \/ FirstStop
    \/ AscentStep
    \/ HoldStep
    \/ LeaveStop
    \/ RecordStop
    \/ StopAscentStep
    \/ NextStop
    \/ FinalAscentStep
    \/ Return
    \/ CallGetBestGasForDepth
    \/ CallGfAtDepth

Spec == Init /\ [][Next]_vars

\* the call has returned or thrown, and the caller goes on to its next call
NextCall ==
    /\ pc \in {"done", "thrown"}
    /\ Len(log) < MaxCalls
    /\ \/ fn = "planDive" /\ call \in RepeatDives
       \/ fn = MG /\ call \in RepeatMultiGas
    /\ log' = Append(log, [fn |-> fn, call |-> call, pc |-> pc, result |-> result])
    /\ pc' = "idle"
    /\ UNCHANGED << argV, st, descentTime, decoTime, cur, segV, loopV, otherV,
                    result, call, fp >>

NextCalls == Next \/ NextCall

SpecCalls == Init /\ [][NextCalls]_vars

-----------------------------------------------------------------------------
(* JavaScript numbers: IEEE 754 doubles                                    *)
(* A double is a sign and a magnitude. The magnitude is a natural number   *)
(* in units of 2^-((Limbs - 1) * LimbBits), written as Limbs digits of     *)
(* LimbBits bits, the least significant first, so that the last digit is   *)
(* the integer part. Every operation computes the exact result and rounds  *)
(* it to 53 significant bits, to nearest, ties to even.                    *)

MantissaBits == 53
LimbBits == 12
Limbs == 12
Base == 2 ^ LimbBits

ZeroLimbs == [j \in 1 .. Limbs |-> 0]

RECURSIVE Log2(_)
Log2(n) == IF n <= 1 THEN 0 ELSE 1 + Log2(n \div 2)

\* the number of bits of a: 0 for 0
BitLength(a) ==
    LET RECURSIVE TopLimb(_)
        TopLimb(j) == IF j = 0 THEN 0 ELSE IF a[j] > 0 THEN j ELSE TopLimb(j - 1)
        top == TopLimb(Limbs)
    IN  IF top = 0 THEN 0 ELSE (top - 1) * LimbBits + Log2(a[top]) + 1

\* -1, 0, 1: a < b, a = b, a > b
CmpLimbs(a, b) ==
    LET RECURSIVE CmpFrom(_)
        CmpFrom(j) ==
            IF j = 0 THEN 0
            ELSE IF a[j] > b[j] THEN 1
            ELSE IF a[j] < b[j] THEN -1
            ELSE CmpFrom(j - 1)
    IN  CmpFrom(Limbs)

AddLimbs(a, b) ==
    LET RECURSIVE AddFrom(_, _)
        AddFrom(j, c) ==
            IF j > Limbs THEN << >>
            ELSE LET t == a[j] + b[j] + c
                 IN  << t % Base >> \o AddFrom(j + 1, t \div Base)
    IN  AddFrom(1, 0)

\* a - b for a >= b
SubLimbs(a, b) ==
    LET RECURSIVE SubFrom(_, _)
        SubFrom(j, c) ==
            IF j > Limbs THEN << >>
            ELSE LET t == a[j] - b[j] - c
                 IN  << (t + Base) % Base >> \o SubFrom(j + 1, IF t < 0 THEN 1 ELSE 0)
    IN  SubFrom(1, 0)

\* a * n for an integer 0 <= n <= Base
MulLimbs(a, n) ==
    LET RECURSIVE MulFrom(_, _)
        MulFrom(j, c) ==
            IF j > Limbs THEN << >>
            ELSE LET t == a[j] * n + c
                 IN  << t % Base >> \o MulFrom(j + 1, t \div Base)
    IN  MulFrom(1, 0)

\* the quotient of a by the integer 0 < n <= Base, rounded down, and the
\* remainder
DivLimbs(a, n) ==
    LET RECURSIVE DivFrom(_, _)
        DivFrom(j, r) ==
            IF j = 0 THEN [q |-> << >>, r |-> r]
            ELSE LET t == r * Base + a[j]
                     rest == DivFrom(j - 1, t % n)
                 IN  [q |-> Append(rest.q, t \div n), r |-> rest.r]
    IN  DivFrom(Limbs, 0)

\* a * 2^s
ShiftLeft(a, s) ==
    LET m == MulLimbs(a, 2 ^ (s % LimbBits))
        q == s \div LimbBits
    IN  [j \in 1 .. Limbs |-> IF j > q THEN m[j - q] ELSE 0]

\* round to nearest, ties to even; inexact says that the exact value lies
\* above a by less than one unit
Round53(a, inexact) ==
    LET cut == BitLength(a) - MantissaBits
        Bit(k) == (a[k \div LimbBits + 1] \div (2 ^ (k % LimbBits))) % 2
    IN  IF cut <= 0 THEN a
        ELSE LET below == inexact \/ \E k \in 0 .. cut - 2 : Bit(k) = 1
                 kept == [j \in 1 .. Limbs |->
                            IF j * LimbBits <= cut THEN 0
                            ELSE IF (j - 1) * LimbBits >= cut THEN a[j]
                            ELSE LET p == 2 ^ (cut - (j - 1) * LimbBits)
                                 IN  (a[j] \div p) * p]
                 unit == [j \in 1 .. Limbs |-> IF j = 1 THEN 1 ELSE 0]
                 up == Bit(cut - 1) = 1 /\ (below \/ Bit(cut) = 1)
             IN  IF up THEN AddLimbs(kept, ShiftLeft(unit, cut)) ELSE kept

\* an integer 0 <= n < Base
DInt(n) == [neg |-> FALSE, m |-> [j \in 1 .. Limbs |-> IF j = Limbs THEN n ELSE 0]]

\* x < y
DLess(x, y) ==
    IF x.neg # y.neg THEN x.neg /\ (x.m # ZeroLimbs \/ y.m # ZeroLimbs)
    ELSE IF x.neg THEN CmpLimbs(x.m, y.m) > 0
    ELSE CmpLimbs(x.m, y.m) < 0

\* Math.min, Math.max
DMin(x, y) == IF DLess(y, x) THEN y ELSE x
DMax(x, y) == IF DLess(x, y) THEN y ELSE x

\* x + y
DAdd(x, y) ==
    LET c == CmpLimbs(x.m, y.m)
        exact == IF x.neg = y.neg THEN [neg |-> x.neg, m |-> AddLimbs(x.m, y.m)]
                 ELSE IF c = 0 THEN [neg |-> FALSE, m |-> ZeroLimbs]
                 ELSE IF c > 0 THEN [neg |-> x.neg, m |-> SubLimbs(x.m, y.m)]
                 ELSE [neg |-> y.neg, m |-> SubLimbs(y.m, x.m)]
    IN  [neg |-> exact.neg, m |-> Round53(exact.m, FALSE)]

\* x - y
DSub(x, y) == DAdd(x, [neg |-> ~y.neg, m |-> y.m])

\* n * x and x / n for an integer 0 < n <= Base
DMulInt(n, x) == [neg |-> x.neg, m |-> Round53(MulLimbs(x.m, n), FALSE)]
DDivInt(x, n) ==
    LET d == DivLimbs(x.m, n) IN [neg |-> x.neg, m |-> Round53(d.q, d.r # 0)]

\* Math.ceil(x / y) for x > 0 and y > 0: the quotient is rounded to a double
\* before Math.ceil sees it, so a quotient that lies above the integer n by
\* at most half a unit in the last place of n gives n, not n + 1
DCeilQuot(x, y) ==
    LET RECURSIVE FloorQuotFrom(_)
        FloorQuotFrom(k) ==
            IF CmpLimbs(MulLimbs(y.m, k), x.m) > 0 THEN k - 1 ELSE FloorQuotFrom(k + 1)
        n == FloorQuotFrom(1)
        r == SubLimbs(x.m, MulLimbs(y.m, n))
        s == MantissaBits - Log2(n)
    IN  IF r = ZeroLimbs THEN n
        ELSE IF n = 0 THEN 1
        ELSE IF BitLength(r) + s <= Limbs * LimbBits
                /\ CmpLimbs(ShiftLeft(r, s), y.m) <= 0 THEN n
        ELSE n + 1

-----------------------------------------------------------------------------
(* planDecompression, its depths and segment times as doubles              *)

\* shallow dives on air at GF 30/70: depth, bottom time, lastStopDepth and
\* the time step in thousandths of a minute (0.5, 1, 0.167)
MaxShallow == 12

DepthCalls ==
    { [depthM |-> d, bottomMin |-> b, lastStopDepth |-> l, timeStepMilli |-> t] :
        d \in 0 .. MaxShallow, b \in {0, 10}, l \in {3, 6}, t \in {500, 1000, 167} }

\* totalTime = dist / rate, steps = Math.ceil(totalTime / timeStep)
Segment(dist, rate, ts) ==
    LET tt == DDivInt(dist, rate)
    IN  [totalTime |-> tt, steps |-> DCeilQuot(tt, ts)]

\* actualStep = Math.min(timeStep, totalTime - i * timeStep)
ActualStep(f) == DMin(f.timeStep, DSub(f.totalTime, DMulInt(f.i, f.timeStep)))

\* one iteration of an ascent loop: Math.max(target, cur - ASCENT_RATE * actualStep)
AscentTo(f) ==
    [f EXCEPT !.cur = DMax(DInt(f.target),
                           DSub(f.cur, DMulInt(ASCENT_RATE, ActualStep(f)))),
              !.i = f.i + 1]

\* the set-up of an ascent loop from cur to target
AscentFrom(f, target) ==
    LET seg == Segment(DSub(f.cur, DInt(target)), ASCENT_RATE, f.timeStep)
    IN  [f EXCEPT !.target = target, !.totalTime = seg.totalTime,
                  !.steps = seg.steps, !.i = 0]

\* the tissues at the end of the descent and of the bottom time, as
\* DescentStep and Bottom compute them
BottomTissues(c) ==
    LET ts == c.timeStepMilli * 1000
        tt == SegmentTime(c.depthM * Micro, DESCENT_RATE)
        n  == CeilDiv(tt, ts)
        RECURSIVE DescentTissues(_, _, _)
        DescentTissues(state, d, k) ==
            IF k >= n THEN state
            ELSE LET step == Min(ts, tt - k * ts)
                     next == Min(c.depthM * Micro, d + DESCENT_RATE * step)
                 IN  DescentTissues(updateConstantDepth(state, next, Air, step),
                                    next, k + 1)
        down == DescentTissues(initTissues, 0, 0)
    IN  IF c.bottomMin > 0
        THEN updateConstantDepth(down, c.depthM * Micro, Air, c.bottomMin * Micro)
        ELSE down

\* lines 66-84
planDecompressionDepth ==
    /\ fp.pc = "idle"
    /\ \E c \in DepthCalls :
         LET ts == DDivInt(DInt(c.timeStepMilli), 1000)
             seg == Segment(DInt(c.depthM), DESCENT_RATE, ts)
         IN  fp' = [pc |-> IF c.depthM > 0 THEN "descent" ELSE "bottom",
                    call |-> c, timeStep |-> ts, cur |-> DInt(0),
                    totalTime |-> IF c.depthM > 0 THEN seg.totalTime ELSE DInt(0),
                    steps |-> IF c.depthM > 0 THEN seg.steps ELSE 0,
                    i |-> 0, target |-> c.depthM, firstStop |-> 0, stopDepth |-> 0]
    /\ UNCHANGED planV

\* lines 85-92
DepthDescentStep ==
    /\ fp.pc = "descent"
    /\ LET next == DMin(DInt(fp.call.depthM),
                        DAdd(fp.cur, DMulInt(DESCENT_RATE, ActualStep(fp))))
       IN  fp' = [fp EXCEPT !.cur = next, !.i = fp.i + 1,
                            !.pc = IF fp.i + 1 < fp.steps THEN "descent" ELSE "bottom"]
    /\ UNCHANGED planV

\* lines 96-98
DepthBottom ==
    /\ fp.pc = "bottom"
    /\ fp' = [fp EXCEPT !.cur = IF fp.call.bottomMin > 0 THEN DInt(fp.call.depthM)
                                ELSE fp.cur,
                         !.pc = "firstStop"]
    /\ UNCHANGED planV

\* lines 106-115
DepthFirstStop ==
    /\ fp.pc = "firstStop"
    /\ LET firstCeil == overallCeiling(BottomTissues(fp.call), 300000)
           fs == Max(fp.call.lastStopDepth,
                     CeilDiv(firstCeil, STOP_STEP * Micro) * STOP_STEP)
           f == [fp EXCEPT !.firstStop = fs, !.stopDepth = fs]
       IN  fp' = IF DLess(DInt(fs), fp.cur)
                 THEN [AscentFrom(f, fs) EXCEPT !.pc = "ascent"]
                 ELSE [f EXCEPT !.pc = "stop"]
    /\ UNCHANGED planV

\* lines 117-124
DepthAscentStep ==
    /\ fp.pc = "ascent"
    /\ fp' = [AscentTo(fp) EXCEPT !.pc = IF fp.i + 1 < fp.steps THEN "ascent" ELSE "stop"]
    /\ UNCHANGED planV

\* lines 131-163: the hold of a stop leaves the depth alone
DepthLeaveStop ==
    /\ fp.pc = "stop"
    /\ LET nd == Max(0, fp.stopDepth - STOP_STEP)
       IN  fp' = IF DLess(DInt(nd), fp.cur)
                 THEN [AscentFrom(fp, nd) EXCEPT !.pc = "stopAscent"]
                 ELSE [fp EXCEPT !.target = nd, !.pc = "next"]
    /\ UNCHANGED planV

\* lines 166-175
DepthStopAscentStep ==
    /\ fp.pc = "stopAscent"
    /\ fp' = [AscentTo(fp) EXCEPT !.pc = IF fp.i + 1 < fp.steps THEN "stopAscent" ELSE "next"]
    /\ UNCHANGED planV

\* lines 177-186: the next stop, the end of the loop, the set-up of the final
\* ascent
DepthNextStop ==
    /\ fp.pc = "next"
    /\ LET f == [fp EXCEPT !.stopDepth = fp.target]
       IN  fp' = IF ~(f.stopDepth = 0 /\ f.cur = DInt(0))
                    /\ f.stopDepth >= f.call.lastStopDepth
                 THEN [f EXCEPT !.pc = "stop"]
                 ELSE IF DLess(DInt(0), f.cur)
                 THEN [AscentFrom(f, 0) EXCEPT !.pc = "finalAscent"]
                 ELSE [f EXCEPT !.pc = "return"]
    /\ UNCHANGED planV

\* lines 188-196
DepthFinalAscentStep ==
    /\ fp.pc = "finalAscent"
    /\ fp' = [AscentTo(fp) EXCEPT !.pc = IF fp.i + 1 < fp.steps THEN "finalAscent"
                                        ELSE "return"]
    /\ UNCHANGED planV

\* lines 199-222
DepthReturn ==
    /\ fp.pc = "return"
    /\ fp' = [fp EXCEPT !.pc = "done"]
    /\ UNCHANGED planV

NextDepth ==
    \/ planDecompressionDepth
    \/ DepthDescentStep
    \/ DepthBottom
    \/ DepthFirstStop
    \/ DepthAscentStep
    \/ DepthLeaveStop
    \/ DepthStopAscentStep
    \/ DepthNextStop
    \/ DepthFinalAscentStep
    \/ DepthReturn

SpecDepth == Init /\ [][NextDepth]_vars

----------------------------------------------------------------------------
(* Properties                                                              *)

Returned(f) == pc = "done" /\ fn = f
StopDepths(p) == [k \in 1 .. Len(p.stops) |-> p.stops[k].depth]

\* C1: in every plan of planDecompression with lastStopDepth 3 or 6 the stop
\* depths decrease strictly from first to last and each is a non-negative
\* multiple of 3 m
C1_StopsDecreaseByThrees ==
    (Returned("planDive") /\ lastStopDepth \in {3, 6}) =>
        LET d == StopDepths(result)
        IN  /\ \A k \in 1 .. Len(d) : d[k] >= 0 /\ d[k] % 3 = 0
            /\ \A k \in 1 .. Len(d) - 1 : d[k] > d[k + 1]

C1_Witness ==
    /\ Returned("planDive") /\ lastStopDepth \in {3, 6}
    /\ Len(result.stops) >= 3

\* C2: the minutes of the descent and of the bottom phase are never added to
\* the time to surface, in either planDecompression
C2_DescentAndBottomNotCounted ==
    [][(pc \in {"descent", "bottom"}) => ((tts' = tts) /\ (decoTime' = decoTime))]_vars

LastStop(p) == p.stops[Len(p.stops)]

C6_NoStopsDirectAscent ==
    (Returned("planDive") /\ result.stops = << >>) =>
        result.tts = MathRound(SegmentTime(depthM * Micro, ASCENT_RATE))

\* C7: planDive lets no gas mix with FO2 + FHe > 1 into the simulation
C7_NegativeNitrogenRejected ==
    (fn = "planDive" /\ pc \notin {"idle", "thrown"}) =>
        gas.FO2 + gas.FHe <= Micro

\* C8: planDive lets no gradient factor outside 1..99 percent, and no
\* gfLow > gfHigh, into planDecompression
C8_GradientFactorsRejected ==
    (fn = "planDive" /\ pc \notin {"idle", "thrown"}) =>
        /\ gfLow >= 1 * (Micro \div 100) /\ gfLow <= 99 * (Micro \div 100)
        /\ gfHigh >= 1 * (Micro \div 100) /\ gfHigh <= 99 * (Micro \div 100)
        /\ gfLow <= gfHigh

\* C9: when the validation of the gas plan reports an error,
\* planDecompressionMultiGas has thrown, no tissue state exists and no plan
\* is returned
C9_InvalidPlanThrowsFirst ==
    (fn = MG /\ Len(validation.errors) > 0) =>
        /\ pc = "thrown"
        /\ st = NoTissues
        /\ cur = 0 /\ stops = << >>
        /\ result = [kind |-> "error"]

C9_Witness ==
    /\ fn = MG /\ pc = "thrown"
    /\ Len(validation.errors) > 0
    /\ st = NoTissues

\* C10: at a stop at or above the switch depth of a deco gas whose PO2 there
\* is within maxPO2, the diver breathes a gas at least that rich
C10_RicherGasUsedAboveSwitchDepth ==
    (fn = MG /\ pc = "hold") =>
        \A j \in 1 .. Len(sortedDecoGases) :
            (/\ stopDepth <= sortedDecoGases[j].depth
             /\ calculatePO2(stopDepth * Micro, sortedDecoGases[j].gas.FO2) <= maxPO2)
            => currentGas.FO2 >= sortedDecoGases[j].gas.FO2

\* C11: the gas getBestGasForDepth returns is at least as rich as the current
\* gas and as every deco gas of the list that is usable at the depth (the depth
\* is at or above its switch depth and its PO2 there is within maxPO2),
\* whatever the order of the list
C11_BestGasIsRichestUsable ==
    Returned("getBestGasForDepth") =>
        /\ result.gas.FO2 >= currentGas.FO2
        /\ \A j \in 1 .. Len(sortedDecoGases) :
               (/\ cur <= sortedDecoGases[j].depth * Micro
                /\ calculatePO2(cur, sortedDecoGases[j].gas.FO2) <= maxPO2)
               => result.gas.FO2 >= sortedDecoGases[j].gas.FO2

\* C12: once planDecompressionMultiGas has chosen the gas of an ascent step or
\* of a stop, it goes on simulating only if that gas has PO2 <= maxPO2 at the
\* depth it is breathed at (otherwise the call has raised)
C12_UnsafeGasIsHardError ==
    /\ (fn = MG /\ pc \in {"ascent", "stopAscent"} /\ i > 0) =>
           calculatePO2(cur, currentGas.FO2) <= maxPO2
    /\ (fn = MG /\ pc = "hold") =>
           calculatePO2(stopDepth * Micro, currentGas.FO2) <= maxPO2

\* C13: a gas plan with the deco gases of createStandardDecoGases() and a
\* bottom gas whose PO2 at the maximum depth is <= 1.6 bar is validated without
\* errors, and planDecompressionMultiGas does not throw
C13_StandardDecoGasesAccepted ==
    (/\ fn = MG /\ pc # "idle"
     /\ gasPlan.decoGases = createStandardDecoGases
     /\ calculatePO2(depthM * Micro, gasPlan.bottomGas.FO2) <= 1600000)
    => (Len(validation.errors) = 0 /\ pc # "thrown")

\* C14: in every plan planDecompressionMultiGas returns, a stop breathed on
\* the mix of a deco gas carries the name of that deco gas
C14_StopsNameTheirDecoGas ==
    Returned(MG) =>
        \A k \in 1 .. Len(result.stops) :
            \A j \in 1 .. Len(gasPlan.decoGases) :
                result.stops[k].gas = gasPlan.decoGases[j].gas
                => result.stops[k].gasName = gasPlan.decoGases[j].name

\* C15: when no minimum last stop time is asked for, so that only the ceiling
\* keeps the diver at a stop, planDecompression returns no ordinary plan that
\* holds a stop cut off by the runaway guard
C15_RunawayIsNotAnOrdinaryPlan ==
    (/\ fn = "planDive" /\ minLast = 0
     /\ \E k \in 1 .. Len(stops) : stops[k].time > HELD_GUARD)
    => (pc # "done" \/ result.kind # "plan")

\* C16, as stated: the time held at a stop never exceeds 360 minutes, and no
\* stop of a returned plan reports more than 360 minutes
C16_HeldAtMostGuard ==
    /\ (fn \in {"planDive", "planDiveEx"}) => held <= HELD_GUARD * Micro
    /\ (pc = "done" /\ fn \in {"planDive", "planDiveEx"}) =>
           \A k \in 1 .. Len(result.stops) : result.stops[k].time <= HELD_GUARD

\* the time step of the hold loop: timeStepMinutes, one minute in
\* core/algorithm.ts
HoldTimeStep == IF fn = "planDiveEx" THEN Micro ELSE timeStep

\* C16, amended: the time held at a stop never exceeds 360 minutes by more
\* than one time step, and no stop of a returned plan reports more than
\* 360 minutes plus one time step, rounded
C16_HeldAtMostGuardPlusStep ==
    /\ (fn \in {"planDive", "planDiveEx"}) =>
           held <= HELD_GUARD * Micro + HoldTimeStep
    /\ (pc = "done" /\ fn \in {"planDive", "planDiveEx"}) =>
           \A k \in 1 .. Len(result.stops) :
               result.stops[k].time <= MathRound(HELD_GUARD * Micro + HoldTimeStep)

C16_Witness ==
    /\ Returned("planDive")
    /\ \E k \in 1 .. Len(result.stops) : result.stops[k].time = HELD_GUARD + 1
    /\ held > HELD_GUARD * Micro

\* C17: every warning of validateMultiGasPlan is among the warnings of the
\* plan planDecompressionMultiGas returns
C17_ValidationWarningsReturned ==
    Returned(MG) =>
        \A j \in 1 .. Len(validation.warnings) :
            /\ result.oxygenToxicity.defined
            /\ \E k \in 1 .. Len(result.oxygenToxicity.warnings) :
                   result.oxygenToxicity.warnings[k] = validation.warnings[j]

C19_NormalisedGasIsAMix ==
    (fn \in {"planDive", "planDiveEx"} /\ pc \notin {"idle", "thrown"}) =>
        /\ 0 <= gas.FO2 /\ gas.FO2 <= Micro
        /\ 0 <= gas.FHe /\ gas.FHe <= Micro
        /\ 0 <= gas.FN2 /\ gas.FN2 <= Micro
        /\ Abs(gas.FO2 + gas.FHe + gas.FN2 - Micro) <= 1

\* C20: every stop of a plan planDecompression returns reports a time of more
\* than 0 minutes
C20_StopsReportPositiveTime ==
    Returned("planDive") =>
        \A k \in 1 .. Len(result.stops) : result.stops[k].time > 0

\* C22: a plan of planDecompression without stops has tts = 0 (the edge case
\* test: 15 m / 10 min on air at GF 85/85 with default options)
C22_NoStopsMeansZeroTts ==
    (Returned("planDive") /\ result.stops = << >>) => result.tts = 0

C25_SurfaceCeilingWhenLeavingLastStop ==
    (/\ fn = "planDive" /\ pc = "record"
     /\ stopDepth = lastStopDepth /\ lastStopDepth \in {3, 6}
     /\ held > 0 /\ held <= HELD_GUARD * Micro)
    => overallCeiling(st, gfHigh) <= 1

\* C27: at the start of every ascent segment of planDecompression the minutes
\* added to the decompression time (steps * timeStep) are the minutes the
\* loop of the segment simulates (totalTime)
C27_AscentTimeAddedIsTimeSimulated ==
    (fn = "planDive" /\ pc \in {"ascent", "stopAscent", "finalAscent"} /\ i = 0)
    => steps * timeStep = totalTime

\* C28: the stop phase of planDecompression updates the tissues at no stop
\* deeper than the diver is, and no recorded stop is deeper than the planned
\* bottom depth
C28_NoStopDeeperThanTheDiver ==
    /\ (fn = "planDive" /\ pc = "hold" /\ held > 0) => stopDepth * Micro <= cur
    /\ Returned("planDive") =>
           \A k \in 1 .. Len(result.stops) : result.stops[k].depth <= depthM

\* C29: in every plan planDecompressionMultiGas returns, the bottom gas at
\* the bottom depth and the gas of every stop at the depth of the stop have
\* PO2 <= maxPO2
C29_ReturnedPlanWithinMaxPO2 ==
    Returned(MG) =>
        /\ calculatePO2(depthM * Micro, gasPlan.bottomGas.FO2) <= maxPO2
        /\ \A k \in 1 .. Len(result.stops) :
               calculatePO2(result.stops[k].depth * Micro,
                            result.stops[k].gas.FO2) <= maxPO2

\* C30: in every returned plan with lastStopDepth 3 or 6, firstStopDepth >=
\* lastStopDepth and every stop lies between lastStopDepth and firstStopDepth
C30_StopsBetweenLastAndFirstStop ==
    (pc = "done" /\ fn \in {"planDive", "planDiveEx", MG}
                 /\ lastStopDepth \in {3, 6}) =>
        /\ result.firstStopDepth >= lastStopDepth
        /\ \A k \in 1 .. Len(result.stops) :
               /\ result.stops[k].depth >= lastStopDepth
               /\ result.stops[k].depth <= result.firstStopDepth

C30_Witness ==
    /\ Returned("planDive")
    /\ lastStopDepth = 6
    /\ result.firstStopDepth > 6
    /\ Len(result.stops) > 1
    /\ result.stops[Len(result.stops)].depth = 6

\* the calls that have returned, the running one included once it is done
Finished ==
    IF pc \in {"done", "thrown"}
    THEN Append(log, [fn |-> fn, call |-> call, pc |-> pc, result |-> result])
    ELSE log

\* C21: two calls with equal inputs return equal plans whatever calls ran
\* before or between them, and a running call of planDecompression or
\* planDecompressionMultiGas leaves its gas, its gas plan (the order of the
\* deco gases included) and its options as the caller passed them
C21_CallsAreIndependent ==
    /\ [](\A j, k \in 1 .. Len(Finished) :
             (Finished[j].fn = Finished[k].fn /\ Finished[j].call = Finished[k].call)
             => /\ Finished[j].pc = Finished[k].pc
                /\ Finished[j].result = Finished[k].result)
    /\ [][pc # "idle" =>
             /\ call' = call /\ gas' = gas /\ gasPlan' = gasPlan
             /\ lastStopDepth' = lastStopDepth /\ minLast' = minLast
             /\ timeStep' = timeStep /\ maxPO2' = maxPO2
             /\ calculateO2' = calculateO2]_vars

C21_Witness ==
    /\ Len(log) = 2 /\ pc = "done" /\ fn = MG
    /\ log[1].fn = MG /\ log[1].call = call /\ log[1].result = result
    /\ log[2].fn = "planDive"
    /\ gasPlan.decoGases # sortedDecoGases
    /\ Len(result.stops) > 1

\* the first call has gradient factors that are lower than or equal to those
\* of the second, in the pairs of the test: 30/70, 40/85, 85/85
MoreConservative(x, y) ==
    /\ x.depthM = y.depthM /\ x.bottomMin = y.bottomMin
    /\ x.gasIn = y.gasIn /\ x.opts = y.opts
    /\ \E j, k \in 1 .. 3 :
          /\ j <= k
          /\ << x.gfLowPct, x.gfHighPct >> = GFTriple[j]
          /\ << y.gfLowPct, y.gfHighPct >> = GFTriple[k]

C26_ReturnsAtTheSurface ==
    fp.pc = "done" => fp.cur.m = ZeroLimbs

====
